---- MODULE Spec2Model ----
(***************************************************************************)
(* Verification model of the mpi-cpp wrapper library (lanl/cellar-mpi).    *)
(*                                                                         *)
(* Part I models the ownership wrappers of include/mpi/handle.hpp          *)
(* (internal::Handle, internal::UniqueHandle, trait::Deref) together with  *)
(* the classes built on them (Comm/UniqueComm, Group/UniqueGroup,          *)
(* Request/UniqueRequest, Op) as one process that constructs, copies,      *)
(* moves, releases and tears down wrapper objects.  The MPI library is the *)
(* environment: it owns the table of resources the identifiers name.       *)
(*                                                                         *)
(* Part II models the root-only collectives of include/mpi/comm.hpp as a   *)
(* set of ranks that call into a communicator.                             *)
(***************************************************************************)
EXTENDS Integers, Sequences, FiniteSets, TLC

\* ------------------------------------------------------------------ bounds
\* wrapper objects (C++ variables) that can exist at the same time
MaxSlots == 2
\* resources the MPI library hands out per behaviour (identifiers 1..MaxIds)
MaxIds == 2

Slots == 1..MaxSlots
Ids == 1..MaxIds

\* ------------------------------------------------------- handle traits
\* The four resource kinds whose wrappers are built on handle.hpp.
Kinds == {"Comm", "Group", "Request", "Op"}

\* Predefined identifiers of the MPI library.  Identifiers of different
\* kinds are never compared, so the numbers may coincide across kinds.
MPI_COMM_WORLD == -1
MPI_COMM_SELF == -2
MPI_GROUP_EMPTY == -1
MPI_SUM == -1
MPI_PROD == -2

\* HandleTraits::null(): MPI_COMM_NULL, MPI_GROUP_NULL, MPI_REQUEST_NULL,
\* MPI_OP_NULL.
null(k) == 0

\* HandleTraits::is_system_handle(handle)
is_system_handle(k, h) ==
    CASE k = "Comm" -> h \in {MPI_COMM_WORLD, MPI_COMM_SELF}
      [] k = "Group" -> h = MPI_GROUP_EMPTY
      [] k = "Request" -> FALSE
      [] k = "Op" -> h \in {MPI_SUM, MPI_PROD}

SystemHandles(k) == {h \in (-2)..(-1) : is_system_handle(k, h)}

\* every value a handle_t of the kind can take in the model
HandleVals == (-2)..MaxIds

\* OpTraits::is_user_defined: false in every Op traits class of op.hpp
is_user_defined == FALSE

VARIABLES
    kind,       \* the HandleTraits the wrappers of this behaviour are built on
    ndebug,     \* TRUE when the build defines NDEBUG (assert compiles to nothing)
    slot,       \* the wrapper objects: [st, own, h] per slot
    res,        \* the MPI library's resource table: state of each identifier
    ndestroy,   \* calls of the kind's destroy procedure (MPI_X_free) per identifier
    proc,       \* "running", or how the process ended
    released,   \* identifiers handed back to the caller by into_raw()
    last,       \* the operation performed last
    pc,         \* Part II: where each rank is
    arg,        \* Part II: the root argument of each rank's call
    xfer,       \* Part III: the last call that forwarded an element count
    batch,      \* Part IV: the last batch completion call and the indices vector
    attrs,      \* Part V: the keyval, the attributes of the communicators, the values
    grp,        \* Part VI: the group being built and the communicators created from it
    win,        \* Part VII: a window, its locks and transfers, the ranks' programs
    cv,         \* Part IX: a collective call, the contributions and the results
    net         \* Part X: the ranks' requests and the messages between them

hvars == <<kind, ndebug, slot, res, ndestroy, proc, released, last>>
cvars == <<pc, arg>>
mvars == <<xfer, batch, attrs, grp, win, cv, net>>
vars == <<kind, ndebug, slot, res, ndestroy, proc, released, last, pc, arg, xfer, batch,
          attrs, grp, win, cv, net>>

\* what each later part leaves alone
xfer_frame == <<hvars, cvars, batch, attrs, grp, win, cv, net>>
batch_frame == <<cvars, xfer, attrs, grp, win, cv, net>>
attrs_frame == <<cvars, xfer, batch, grp, win, cv, net>>
grp_frame == <<hvars, cvars, xfer, batch, attrs, win, cv, net>>
win_frame == <<hvars, cvars, xfer, batch, attrs, grp, cv, net>>
cv_frame == <<hvars, cvars, xfer, batch, attrs, grp, win, net>>
net_frame == <<cvars, xfer, batch, attrs, grp, win, cv>>

\* no count forwarded yet
NoXfer == [op |-> "none", count |-> 0, result |-> "none", called |-> FALSE,
           passed |-> 0, request |-> FALSE]

\* the later parts have not started
\* no batch completion call made yet, the indices vector empty
NoBatch == [op |-> "none", result |-> "none", n |-> 0, indices |-> <<>>]

\* the attribute values new T(...) can allocate; T is bool
MaxBoxes == 2
Boxes == 1 .. MaxBoxes
Vals == BOOLEAN

NoBox == [st |-> "unalloc", val |-> FALSE, ndelete |-> 0]

\* no keyval created, no attribute set, no value allocated
NoAttrs ==
    [op |-> "none", key |-> "none", got |-> 0,
     at |-> [c \in HandleVals |-> 0],
     box |-> [b \in Boxes |-> NoBox]]

\* no group obtained yet
NoGroup == [op |-> "none", result |-> "none", g |-> <<>>, ranges |-> <<>>,
            comm |-> <<>>]

\* no window allocated yet
NoWin == [test |-> "none", at |-> <<>>, mem |-> <<>>, buf |-> <<>>, pend |-> <<>>,
          excl |-> <<>>, shared |-> {}]

\* no collective called yet
NoCv == [op |-> "none", fop |-> "none", comm |-> "none", root |-> 0, g |-> <<>>,
         in |-> <<>>, nrecv |-> <<>>, st |-> <<>>, out |-> <<>>]

\* no request started yet
NoNet == [test |-> "none", n |-> 0, at |-> <<>>, w |-> <<>>, var |-> <<>>,
          msgs |-> {}, posted |-> {}, done |-> <<>>, nstatus |-> 0]

InitM ==
    /\ xfer = NoXfer /\ batch = NoBatch /\ attrs = NoAttrs /\ grp = NoGroup
    /\ win = NoWin /\ cv = NoCv /\ net = NoNet

FreeSlot == [st |-> "free", own |-> "ref", h |-> 0]

\* The part of the state the wrapper operations transform.
World == [slot |-> slot, res |-> res, ndestroy |-> ndestroy, proc |-> proc,
          released |-> released]

Running(w) == w.proc = "running"

\* ------------------------------------------------------ the MPI library
\* MPI_Comm_free / MPI_Group_free / MPI_Request_free / MPI_Op_free on the
\* handle_t stored in slot s: a live user resource is deallocated and the
\* handle set to the null identifier; any other argument (null, predefined,
\* already deallocated) is an erroneous call, which check_result turns into
\* an exception (or the library's fatal error handler ends the process).
MPI_free(w, s) ==
    LET h == w.slot[s].h IN
    IF h \in DOMAIN w.res /\ w.res[h] = "live"
    THEN [w EXCEPT !.res[h] = "destroyed",
                   !.slot[s].h = null(kind),
                   !.ndestroy[h] = @ + 1]
    ELSE [w EXCEPT !.ndestroy[h] = @ + 1, !.proc = "exception"]

\* MPI_Wait on the request stored in slot s: returns at once on
\* MPI_REQUEST_NULL, completes and deallocates an active request and sets
\* the handle to MPI_REQUEST_NULL; a stale identifier is an erroneous call.
MPI_Wait(w, s) ==
    LET h == w.slot[s].h IN
    IF h = null(kind) THEN w
    ELSE IF h \in DOMAIN w.res /\ w.res[h] = "live"
    THEN [w EXCEPT !.res[h] = "completed", !.slot[s].h = null(kind)]
    ELSE [w EXCEPT !.proc = "exception"]

\* MPI_Test: as MPI_Wait when the operation has finished (flag), otherwise
\* the request stays active and the handle is unchanged.
MPI_Test(w, s, flag) ==
    LET h == w.slot[s].h IN
    IF h = null(kind) THEN w
    ELSE IF h \in DOMAIN w.res /\ w.res[h] = "live"
    THEN (IF flag THEN MPI_Wait(w, s) ELSE w)
    ELSE [w EXCEPT !.proc = "exception"]

\* <cassert> assert(cond): ends the process unless NDEBUG is defined.
cassert(w, cond) ==
    IF Running(w) /\ ~ndebug /\ ~cond
    THEN [w EXCEPT !.proc = "assert_fail"]
    ELSE w

\* HandleTraits::destroy(handle_): check_result(MPI_X_free(&handle))
destroy(w, s) == MPI_free(w, s)

\* ------------------------------------------------- internal::Handle
\* Handle(handle_t): a reference wrapper around a raw identifier
Handle_ctor(w, s, h) ==
    [w EXCEPT !.slot[s] = [st |-> "live", own |-> "ref", h |-> h]]

\* Handle(Handle const &) = default
Handle_copy_ctor(w, src, dst) == Handle_ctor(w, dst, w.slot[src].h)

\* Handle &operator=(Handle const &) = default
Handle_copy_assign(w, src, dst) == [w EXCEPT !.slot[dst].h = w.slot[src].h]

\* void Handle::reset()
Handle_reset(w, s) == [w EXCEPT !.slot[s].h = null(kind)]

\* void Handle::free()
Handle_free(w, s) ==
    LET w1 == IF w.slot[s].h # null(kind) THEN destroy(w, s) ELSE w
    IN  cassert(w1, w1.slot[s].h = null(kind))

\* variant: a destructor that frees what the reference names
Handle_dtor_free(w, s) ==
    LET w1 == Handle_free(w, s) IN
    IF ~Running(w1) THEN w1 ELSE [w1 EXCEPT !.slot[s] = FreeSlot]

\* ~Handle(): implicit, does nothing; the object is gone
Handle_dtor(w, s) == [w EXCEPT !.slot[s] = FreeSlot]

\* ---------------------------------------------- internal::UniqueHandle
\* UniqueHandle(handle_t) / UniqueHandle() = default
UniqueHandle_ctor(w, s, h) ==
    [w EXCEPT !.slot[s] = [st |-> "live", own |-> "unique", h |-> h]]

\* std::swap(handle_, other.handle_)
swap(w, a, b) ==
    [w EXCEPT !.slot[a].h = w.slot[b].h, !.slot[b].h = w.slot[a].h]

\* handle_t UniqueHandle::into_raw(): the handle after the call; the value
\* returned is the handle before it
UniqueHandle_into_raw(w, s) ==
    [w EXCEPT !.slot[s].h = null(kind),
              !.released = IF w.slot[s].h \in Ids THEN @ \cup {w.slot[s].h} ELSE @]

\* variant: reset() that forgets the identifier without destroying it
UniqueHandle_reset_leak(w, s) ==
    LET w1 == cassert(w, ~is_system_handle(kind, w.slot[s].h)) IN
    IF ~Running(w1) THEN w1 ELSE [w1 EXCEPT !.slot[s].h = null(kind)]

\* void UniqueHandle::reset()
UniqueHandle_reset(w, s) ==
    LET w1 == cassert(w, ~is_system_handle(kind, w.slot[s].h)) IN
    IF ~Running(w1) THEN w1
    ELSE IF w1.slot[s].h # null(kind)
    THEN LET w2 == destroy(w1, s)
         IN  IF ~Running(w2) THEN w2
             ELSE LET w3 == cassert(w2, w2.slot[s].h = null(kind))
                  IN  cassert(w3, w3.slot[s].h = null(kind))
    ELSE cassert(w1, w1.slot[s].h = null(kind))

\* variant: a move constructor that copies the identifier
UniqueHandle_move_ctor_copy(w, src, dst) ==
    UniqueHandle_ctor(w, dst, w.slot[src].h)

\* UniqueHandle(UniqueHandle &&other): handle_ starts null and is swapped
UniqueHandle_move_ctor(w, src, dst) ==
    swap(UniqueHandle_ctor(w, dst, null(kind)), dst, src)

\* variant: move assignment that swaps without reset()
UniqueHandle_move_assign_swap(w, src, dst) == swap(w, dst, src)

\* UniqueHandle &operator=(UniqueHandle &&other)
UniqueHandle_move_assign(w, src, dst) ==
    LET w1 == UniqueHandle_reset(w, dst) IN
    IF ~Running(w1) THEN w1 ELSE swap(w1, dst, src)

\* ~UniqueHandle() { reset(); }
UniqueHandle_dtor(w, s) ==
    LET w1 == UniqueHandle_reset(w, s) IN
    IF ~Running(w1) THEN w1 ELSE [w1 EXCEPT !.slot[s] = FreeSlot]

\* ------------------------------------------------------ UniqueRequest
\* variant: check_null() that drops a pending request silently
check_null_drop(w, s) == [w EXCEPT !.slot[s].h = null(kind)]

\* void UniqueRequest::check_null(): std::exit(EXIT_FAILURE) when not null
check_null(w, s) ==
    IF w.slot[s].h # null(kind) THEN [w EXCEPT !.proc = "exit_failure"] ELSE w

\* variant: the defaulted move assignment (no check_null())
UniqueRequest_move_assign_default(w, src, dst) ==
    UniqueHandle_move_assign(w, src, dst)

\* UniqueRequest &operator=(UniqueRequest &&other)
UniqueRequest_move_assign(w, src, dst) ==
    LET w1 == check_null(w, dst) IN
    IF ~Running(w1) THEN w1 ELSE UniqueHandle_move_assign(w1, src, dst)

\* ~UniqueRequest() { check_null(); } followed by ~UniqueHandle()
UniqueRequest_dtor(w, s) ==
    LET w1 == check_null(w, s) IN
    IF ~Running(w1) THEN w1 ELSE UniqueHandle_dtor(w1, s)

\* ---------------------------------------------------------- RequestImpl
\* void RequestImpl::free()
RequestImpl_free(w, s) ==
    IF w.slot[s].h # null(kind) THEN MPI_free(w, s) ELSE w

\* void RequestImpl::wait()
RequestImpl_wait(w, s) == MPI_Wait(w, s)

\* bool RequestImpl::test()
RequestImpl_test(w, s, flag) == MPI_Test(w, s, flag)

\* mpi::wait_all(std::span<UniqueRequest>): MPI_Waitall over the array,
\* here the slots of S in index order
RECURSIVE wait_all(_, _)
wait_all(w, S) ==
    IF S = {} \/ ~Running(w) THEN w
    ELSE LET s == CHOOSE x \in S : \A y \in S : x <= y
         IN  wait_all(MPI_Wait(w, s), S \ {s})

\* ------------------------------------------------------------------ Op
\* ~Op() { if (!OpTraits::is_user_defined) into_raw(); } then ~UniqueHandle()
Op_dtor(w, s) ==
    LET w1 == IF ~is_user_defined THEN UniqueHandle_into_raw(w, s) ELSE w
    IN  UniqueHandle_dtor(w1, s)

\* ------------------------------------------------------ trait::Deref
\* variant: deref() that takes the identifier out of the owner
Deref_deref_into_raw(w, src, dst) ==
    Handle_ctor(UniqueHandle_into_raw(w, src), dst, w.slot[src].h)

\* To Deref::deref(): To::from_handle(static_cast<From *>(this)->get_raw())
Deref_deref(w, src, dst) == Handle_ctor(w, dst, w.slot[src].h)

\* -------------------------------------- dispatch on the concrete class
\* the move assignment operator of the owning class of the kind
move_assign(w, src, dst) ==
    IF kind = "Request" THEN UniqueRequest_move_assign(w, src, dst)
    ELSE UniqueHandle_move_assign(w, src, dst)

\* the destructor of the class of the object in slot s
dtor(w, s) ==
    IF w.slot[s].own = "ref" THEN Handle_dtor(w, s)
    ELSE CASE kind = "Request" -> UniqueRequest_dtor(w, s)
           [] kind = "Op" -> Op_dtor(w, s)
           [] OTHER -> UniqueHandle_dtor(w, s)

\* ------------------------------------------------- resource factories
\* MPI_Comm_dup / MPI_Comm_group / MPI_Isend, MPI_Irecv, MPI_Ibarrier write
\* the identifier of a new resource through addressof(); identifiers are
\* handed out in order and never reused within a behaviour.
MPI_create(w, s) ==
    LET id == CHOOSE i \in DOMAIN w.res :
                  w.res[i] = "unalloc" /\ \A j \in DOMAIN w.res : w.res[j] = "unalloc" => i <= j
    IN  [w EXCEPT !.res[id] = "live", !.slot[s].h = id]

\* CommImpl::dup(), CommImpl::group(), CommImpl::immediate_send() ...:
\* a default-constructed owning wrapper filled in by the library
factory(w, s) == MPI_create(UniqueHandle_ctor(w, s, null(kind)), s)

\* Op::from_system_handle(op), as called by sum(), product() ...
from_system_handle(w, s, h) == UniqueHandle_ctor(w, s, h)

\* X::from_handle(h), X(): a wrapper of either class around a raw identifier
from_handle(w, s, own, h) ==
    IF own = "ref" THEN Handle_ctor(w, s, h) ELSE UniqueHandle_ctor(w, s, h)

\* ----------------------------------------------------------- actions
IsFree(s) == slot[s].st = "free"
IsRef(s) == slot[s].st = "live" /\ slot[s].own = "ref"
IsUnique(s) == slot[s].st = "live" /\ slot[s].own = "unique"

\* Comm, Group and Request come as a reference class and an owning class;
\* Op<Traits> is an owning class only and has no deref().
HasRefClass == kind # "Op"

\* the raw identifiers a caller can name: the constants of the library and
\* the identifiers of the resources created so far
RawVals == {null(kind)} \cup SystemHandles(kind) \cup {i \in Ids : res[i] # "unalloc"}

\* the record kept of the last operation: its name and the class of the
\* wrapper it was called on
Op(name, own) == [op |-> name, own |-> own]

\* new objects take the lowest free slot: slots are interchangeable
IsNew(s) == slot[s].st = "free" /\ \A t \in Slots : slot[t].st = "free" => s <= t

CommitH(w, l) ==
    /\ slot' = w.slot
    /\ res' = w.res
    /\ ndestroy' = w.ndestroy
    /\ proc' = w.proc
    /\ released' = w.released
    /\ last' = l
    /\ UNCHANGED <<kind, ndebug>>

Commit(w, l) ==
    /\ CommitH(w, l)
    /\ UNCHANGED <<cvars, mvars>>

Create(s) ==
    /\ proc = "running" /\ kind # "Op" /\ IsNew(s)
    /\ \E i \in Ids : res[i] = "unalloc"
    /\ Commit(factory(World, s), Op("create", "unique"))

BuiltinOp(s, h) ==
    /\ proc = "running" /\ kind = "Op" /\ IsNew(s)
    /\ h \in SystemHandles(kind)
    /\ Commit(from_system_handle(World, s, h), Op("builtin_op", "unique"))

Construct(s, own, h) ==
    /\ proc = "running" /\ IsNew(s)
    /\ own = "ref" => HasRefClass
    /\ Commit(from_handle(World, s, own, h), Op("from_handle", own))

Copy(src, dst) ==
    /\ proc = "running" /\ IsRef(src) /\ IsNew(dst)
    /\ Commit(Handle_copy_ctor(World, src, dst), Op("copy", "ref"))

CopyAssign(src, dst) ==
    /\ proc = "running" /\ IsRef(src) /\ IsRef(dst)
    /\ Commit(Handle_copy_assign(World, src, dst), Op("copy_assign", "ref"))

RefReset(s) ==
    /\ proc = "running" /\ IsRef(s)
    /\ Commit(Handle_reset(World, s), Op("reset", "ref"))

RefFree(s) ==
    /\ proc = "running" /\ IsRef(s)
    /\ Commit(Handle_free(World, s), Op("free", "ref"))

GetRaw(s) ==
    /\ proc = "running" /\ slot[s].st = "live"
    /\ Commit(World, Op("get_raw", slot[s].own))

MoveCtor(src, dst) ==
    /\ proc = "running" /\ IsUnique(src) /\ IsNew(dst)
    /\ Commit(UniqueHandle_move_ctor(World, src, dst), Op("move_ctor", "unique"))

MoveAssign(src, dst) ==
    /\ proc = "running" /\ IsUnique(src) /\ IsUnique(dst)
    /\ Commit(move_assign(World, src, dst), Op("move_assign", "unique"))

IntoRaw(s) ==
    /\ proc = "running" /\ IsUnique(s)
    /\ Commit(UniqueHandle_into_raw(World, s), Op("into_raw", "unique"))

Deref(src, dst) ==
    /\ proc = "running" /\ HasRefClass /\ slot[src].st = "live" /\ IsNew(dst)
    /\ Commit(Deref_deref(World, src, dst), Op("deref", slot[src].own))

Teardown(s) ==
    /\ proc = "running" /\ slot[s].st = "live"
    /\ Commit(dtor(World, s), Op("teardown", slot[s].own))

Wait(s) ==
    /\ proc = "running" /\ kind = "Request" /\ slot[s].st = "live"
    /\ Commit(RequestImpl_wait(World, s), Op("wait", slot[s].own))

Test(s, flag) ==
    /\ proc = "running" /\ kind = "Request" /\ slot[s].st = "live"
    /\ Commit(RequestImpl_test(World, s, flag), Op("test", slot[s].own))

RequestFree(s) ==
    /\ proc = "running" /\ kind = "Request" /\ slot[s].st = "live"
    /\ Commit(RequestImpl_free(World, s), Op("request_free", slot[s].own))

WaitAll(S) ==
    /\ proc = "running" /\ kind = "Request" /\ S # {}
    /\ \A s \in S : IsUnique(s)
    /\ Commit(wait_all(World, S), Op("wait_all", "unique"))

\* --------------------------------------------------- specifications
NoRanks == [r \in {} |-> 0]

InitH ==
    /\ kind \in Kinds
    /\ ndebug \in BOOLEAN
    /\ slot = [s \in Slots |-> FreeSlot]
    /\ res = [i \in Ids |-> "unalloc"]
    /\ ndestroy = [h \in HandleVals |-> 0]
    /\ proc = "running"
    /\ released = {}
    /\ last = Op("init", "ref")
    /\ pc = NoRanks
    /\ arg = NoRanks
    /\ InitM

\* Owning wrappers only come from the library's factories and are then
\* moved, released, dereferenced, completed and torn down.
NextOwn ==
    \/ \E s \in Slots : Create(s)
    \/ \E s \in Slots, h \in HandleVals : BuiltinOp(s, h)
    \/ \E s \in Slots : Construct(s, "unique", null(kind))
    \/ \E src, dst \in Slots : MoveCtor(src, dst)
    \/ \E src, dst \in Slots : MoveAssign(src, dst)
    \/ \E s \in Slots : IntoRaw(s)
    \/ \E src, dst \in Slots : Deref(src, dst)
    \/ \E s \in Slots : Teardown(s)
    \/ \E s \in Slots : IsUnique(s) /\ Wait(s)
    \/ \E s \in Slots, flag \in BOOLEAN : IsUnique(s) /\ Test(s, flag)
    \/ \E s \in Slots : IsUnique(s) /\ RequestFree(s)
    \/ \E S \in SUBSET Slots : WaitAll(S)

SpecOwn == InitH /\ [][NextOwn]_vars

\* Reference wrappers: made from raw identifiers or by deref() of the owning
\* wrappers the factories return, then copied, assigned, reset, freed, read
\* and dropped.
NextRef ==
    \/ \E s \in Slots : Create(s)
    \/ \E s \in Slots, h \in RawVals : Construct(s, "ref", h)
    \/ \E src, dst \in Slots : Copy(src, dst)
    \/ \E src, dst \in Slots : CopyAssign(src, dst)
    \/ \E s \in Slots : RefReset(s)
    \/ \E s \in Slots : RefFree(s)
    \/ \E s \in Slots : GetRaw(s)
    \/ \E src, dst \in Slots : Deref(src, dst)
    \/ \E s \in Slots : Teardown(s)
    \/ \E s \in Slots : Wait(s)
    \/ \E s \in Slots, flag \in BOOLEAN : Test(s, flag)
    \/ \E s \in Slots : RequestFree(s)

SpecRef == InitH /\ [][NextRef]_vars

\* Every public operation of the wrappers, on any raw identifier.
Next ==
    \/ \E s \in Slots : Create(s)
    \/ \E s \in Slots, h \in HandleVals : BuiltinOp(s, h)
    \/ \E s \in Slots, own \in {"ref", "unique"}, h \in RawVals : Construct(s, own, h)
    \/ \E src, dst \in Slots : Copy(src, dst)
    \/ \E src, dst \in Slots : CopyAssign(src, dst)
    \/ \E s \in Slots : RefReset(s)
    \/ \E s \in Slots : RefFree(s)
    \/ \E s \in Slots : GetRaw(s)
    \/ \E src, dst \in Slots : MoveCtor(src, dst)
    \/ \E src, dst \in Slots : MoveAssign(src, dst)
    \/ \E s \in Slots : IntoRaw(s)
    \/ \E src, dst \in Slots : Deref(src, dst)
    \/ \E s \in Slots : Teardown(s)
    \/ \E s \in Slots : Wait(s)
    \/ \E s \in Slots, flag \in BOOLEAN : Test(s, flag)
    \/ \E s \in Slots : RequestFree(s)
    \/ \E S \in SUBSET Slots : WaitAll(S)

Spec == InitH /\ [][Next]_vars

\* =================================================== claims, Part I
Holders(x) == {s \in Slots : IsUnique(s) /\ slot[s].h = x}

\* C1: the destroy procedure of a kind is never invoked on the kind's null
\* identifier nor on an identifier is_system_handle flags as protected,
\* whatever the sequence of wrapper operations.
C1_NoDestroyOfNullOrProtected ==
    \A h \in HandleVals :
        (h = null(kind) \/ is_system_handle(kind, h)) => ndestroy[h] = 0

\* C2 as stated: once every owning request has been torn down and the
\* teardowns returned normally, no request is still pending (each has
\* completed, or was freed).
C2_NoPendingPastTeardown ==
    (/\ kind = "Request" /\ proc = "running"
     /\ last = Op("teardown", "unique")
     /\ \A s \in Slots : ~IsUnique(s))
    => \A x \in Ids : res[x] # "live"

\* C2 as amended: while the process runs, every pending request is held by
\* a live owning request, unless into_raw() handed its identifier back to
\* the caller; so a request that passes teardown has completed, was freed,
\* sits in another owning request, or was released with into_raw().
C2_PendingHeldOrReleased ==
    (kind = "Request" /\ proc = "running")
    => \A x \in Ids : res[x] = "live" => (Holders(x) # {} \/ x \in released)

\* an owning request was torn down, normally, after its operation completed
C2_Witness ==
    /\ kind = "Request" /\ proc = "running"
    /\ last = Op("teardown", "unique")
    /\ \A s \in Slots : ~IsUnique(s)
    /\ \E x \in Ids : res[x] = "completed"
    /\ \A x \in Ids : res[x] # "live"

\* C3: at most one owning handle holds a given live resource identifier.
C3_SoleOwner ==
    \A x \in Ids : res[x] = "live" => Cardinality(Holders(x)) <= 1

\* a live resource has just been moved from one owning handle to another
C3_Witness ==
    /\ proc = "running"
    /\ last.op \in {"move_ctor", "move_assign"}
    /\ \E x \in Ids : res[x] = "live" /\ Cardinality(Holders(x)) = 1
    /\ \E s \in Slots : IsUnique(s) /\ slot[s].h = null(kind)

\* C9: obtaining built-in operators, moving them and dropping them never
\* invokes the destroy procedure on a built-in operator and never fails
\* the protected-handle assertion.
C9_BuiltinOpNeverDestroyed ==
    kind = "Op" =>
        /\ \A h \in SystemHandles(kind) : ndestroy[h] = 0
        /\ proc # "assert_fail"

\* ---- C4
\* teardown of, or move assignment onto, an owning handle that holds a
\* created (non-null, non-protected) identifier passes it to destroy once
\* and leaves the handle null
DestroysWhatItHolds ==
    /\ \A s \in Slots :
         (Teardown(s) /\ IsUnique(s) /\ slot[s].h \in Ids) =>
            /\ ndestroy'[slot[s].h] = ndestroy[slot[s].h] + 1
            /\ slot'[s].h = null(kind)
    /\ \A src, dst \in Slots :
         (MoveAssign(src, dst) /\ slot[dst].h \in Ids) =>
            ndestroy'[slot[dst].h] = ndestroy[slot[dst].h] + 1

\* into_raw() returns the identifier, leaves the handle null, destroys nothing
IntoRawReleases ==
    \A s \in Slots :
        IntoRaw(s) =>
            /\ slot'[s].h = null(kind)
            /\ slot[s].h \in Ids => slot[s].h \in released'
            /\ ndestroy' = ndestroy /\ res' = res

\* no identifier is destroyed twice, and none after into_raw() released it
DestroyedAtMostOnce ==
    \A x \in Ids : ndestroy[x] <= 1 /\ (x \in released => ndestroy[x] = 0)

C5_PendingRequestEndsProcess ==
    [][kind = "Request" =>
        /\ \A s \in Slots :
             (Wait(s) /\ IsUnique(s) /\ proc' = "running") => slot'[s].h = null(kind)
        /\ \A s \in Slots :
             (Teardown(s) /\ IsUnique(s) /\ slot[s].h = null(kind)) =>
                proc' = "running" /\ slot'[s] = FreeSlot
        /\ \A s \in Slots :
             (Teardown(s) /\ IsUnique(s) /\ slot[s].h # null(kind)) =>
                proc' = "exit_failure" /\ slot' = slot /\ res' = res /\ ndestroy' = ndestroy
        /\ \A src, dst \in Slots :
             (MoveAssign(src, dst) /\ slot[dst].h # null(kind)) =>
                proc' = "exit_failure" /\ slot' = slot /\ res' = res /\ ndestroy' = ndestroy
      ]_vars

\* the teardown of a pending owning request ended the process
C5_Witness ==
    /\ kind = "Request" /\ proc = "exit_failure"
    /\ last = Op("teardown", "unique")
    /\ \E s \in Slots : IsUnique(s) /\ slot[s].h \in Ids /\ res[slot[s].h] = "live"

\* ---- C6
MoveCtorTransfers ==
    \A src, dst \in Slots :
        MoveCtor(src, dst) =>
            /\ slot'[dst] = [st |-> "live", own |-> "unique", h |-> slot[src].h]
            /\ slot'[src].h = null(kind)
            /\ ndestroy' = ndestroy /\ res' = res

\* move assignment from another object onto a destination that is null or
\* holds a created resource
MoveAssignDestroysThenTransfers ==
    \A src, dst \in Slots :
        (MoveAssign(src, dst) /\ src # dst /\ slot[dst].h \in Ids \cup {null(kind)}) =>
            /\ slot[dst].h # null(kind) =>
                  ndestroy'[slot[dst].h] = ndestroy[slot[dst].h] + 1
            /\ slot'[dst].h = slot[src].h
            /\ slot'[src].h = null(kind)

C7_RefNeverDestroys ==
    [][last'.own = "ref" => ndestroy' = ndestroy]_vars

\* C7 as amended: no operation on a reference handle other than free()
\* invokes the destroy procedure (going out of scope included); free() on a
\* non-null reference passes its identifier to the destroy procedure.
C7_RefDestroysOnlyInFree ==
    [][/\ (last'.own = "ref" /\ last'.op \notin {"free", "request_free"})
            => ndestroy' = ndestroy
       /\ \A s \in Slots :
            (RefFree(s) /\ slot[s].h # null(kind)) =>
                ndestroy'[slot[s].h] = ndestroy[slot[s].h] + 1
      ]_vars

\* a reference went out of scope while the resource it names is live
C7_Witness ==
    /\ proc = "running"
    /\ last = Op("teardown", "ref")
    /\ \E x \in Ids : res[x] = "live" /\ ndestroy[x] = 0 /\ Holders(x) # {}
    /\ \A s \in Slots : ~IsRef(s)

\* ---- C8
\* C8: deref() returns a reference handle with the owner's identifier,
\* leaves the owner as it was and destroys nothing; tearing the reference
\* down changes no resource and no other wrapper.
C8_DerefAliases ==
    [][/\ \A src, dst \in Slots :
            Deref(src, dst) =>
                /\ slot'[dst] = [st |-> "live", own |-> "ref", h |-> slot[src].h]
                /\ slot'[src] = slot[src]
                /\ res' = res /\ ndestroy' = ndestroy /\ proc' = proc
                /\ released' = released
       /\ \A s \in Slots :
            (Teardown(s) /\ IsRef(s)) =>
                /\ res' = res /\ ndestroy' = ndestroy /\ proc' = proc
                /\ \A t \in Slots \ {s} : slot'[t] = slot[t]
      ]_vars

\* an owner of a live resource has been dereferenced
C8_Witness ==
    /\ proc = "running"
    /\ last = Op("deref", "unique")
    /\ \E s, t \in Slots :
          /\ IsUnique(s) /\ IsRef(t)
          /\ slot[s].h = slot[t].h
          /\ slot[s].h \in Ids /\ res[slot[s].h] = "live"

\* ================================== Part II: collectives on a communicator
\* The processes of one communicator.  Each runs the same library code; pc[r]
\* is where rank r stands and arg[r] the collective it called.

NumRanks == 2
Ranks == 0 .. (NumRanks - 1)

RootOnlyOps == {"gather_into_root", "reduce_into_root"}
CollectiveOps == {"gather", "reduce"} \cup RootOnlyOps

\* the receive buffer of a call: absent, too small for the result, or fitting
RecvKinds == {"none", "small", "ok"}

\* gather_into_root takes its receive buffer as a span, never as an optional
RecvOf(op) == IF op = "gather_into_root" THEN RecvKinds \ {"none"} ELSE RecvKinds

NoCall == [op |-> "none", root |-> 0]

\* a process that has ended: normally, as the caller of MPI_Abort, killed by
\* another rank's MPI_Abort, by a fault, or by an exception leaving the call
Terminated == {"done", "aborted", "killed", "crashed", "exception"}

\* CommImpl::rank()
rank(r) == r

\* the MPI collective behind an operation
Coll(op) ==
    CASE op \in {"gather", "gather_into_root"} -> "MPI_Gather"
      [] op \in {"reduce", "reduce_into_root"} -> "MPI_Reduce"
      [] OTHER -> "none"

\* MPI_Abort by the caller alone
abort_local(p, r) == [p EXCEPT ![r] = "aborted"]

\* CommImpl::abort: MPI_Abort(comm(), errorcode) ends every process of the
\* communicator that has not ended yet
abort(p, r) ==
    [q \in DOMAIN p |-> IF q = r THEN "aborted"
                     ELSE IF p[q] \in Terminated THEN p[q]
                     ELSE "killed"]

\* the rank is inside MPI_Gather / MPI_Reduce
MPI_collective(p, r) == [p EXCEPT ![r] = "in_collective"]

crash(p, r) == [p EXCEPT ![r] = "crashed"]

throw(p, r) == [p EXCEPT ![r] = "exception"]

\* The operations return the set of outcomes the call can have.

\* CommImpl::gather(root, send, recv): the root aborts the communicator when
\* recv is missing or too small; a non-root call without recv evaluates
\* recv->datatype() on an empty optional
gather(p, r, root, recv) ==
    IF root = rank(r) /\ recv = "none" THEN {abort(p, r)}
    ELSE IF root = rank(r) /\ recv = "small" THEN {abort(p, r)}
    ELSE IF recv = "none" THEN {MPI_collective(p, r), crash(p, r)}
    ELSE {MPI_collective(p, r)}

gather_into_root(p, r, root, recv) ==
    IF root # rank(r) THEN {abort(p, r)}
    ELSE gather(p, r, root, recv)

\* CommImpl::reduce(op, root, send, send_count, recv, recv_count): the root
\* aborts when recv is null; a recv_count below send_count is reported only
\* under a second !recv test, so MPI_Reduce is entered with the short buffer
reduce(p, r, root, recv, huge) ==
    IF root = rank(r) /\ recv = "none" THEN {abort(p, r)}
    ELSE IF huge THEN {throw(p, r)}
    ELSE IF root = rank(r) /\ recv = "small" THEN {MPI_collective(p, r), crash(p, r)}
    ELSE {MPI_collective(p, r)}

reduce_into_root(p, r, root, recv, huge) ==
    IF root # rank(r) THEN {abort(p, r)}
    ELSE reduce(p, r, root, recv, huge)

call(p, r, a, recv, huge) ==
    CASE a.op = "gather" -> gather(p, r, a.root, recv)
      [] a.op = "gather_into_root" -> gather_into_root(p, r, a.root, recv)
      [] a.op = "reduce" -> reduce(p, r, a.root, recv, huge)
      [] a.op = "reduce_into_root" -> reduce_into_root(p, r, a.root, recv, huge)

\* rank q has contributed to the collective rank r is in
Matches(q, r) ==
    /\ pc[q] \in {"in_collective", "done"}
    /\ Coll(arg[q].op) = Coll(arg[r].op)
    /\ arg[q].root = arg[r].root

\* ---- actions
\* rank r reaches a call of a collective operation
Call(r, op, root) ==
    /\ pc[r] = "idle"
    /\ pc' = [pc EXCEPT ![r] = "called"]
    /\ arg' = [arg EXCEPT ![r] = [op |-> op, root |-> root]]
    /\ UNCHANGED <<hvars, mvars>>

\* rank r runs the operation up to the MPI collective
Enter(r) ==
    /\ pc[r] = "called"
    /\ \E recv \in RecvOf(arg[r].op), huge \in BOOLEAN :
          pc' \in call(pc, r, arg[r], recv, huge)
    /\ UNCHANGED <<arg, hvars, mvars>>

\* the collective returns: on the root once every rank has contributed, on
\* the other ranks as soon as their contribution is sent
Complete(r) ==
    /\ pc[r] = "in_collective"
    /\ arg[r].root = rank(r) => \A q \in Ranks \ {r} : Matches(q, r)
    /\ pc' = [pc EXCEPT ![r] = "done"]
    /\ UNCHANGED <<arg, hvars, mvars>>

\* rank r ends without calling a collective
Finish(r) ==
    /\ pc[r] = "idle"
    /\ pc' = [pc EXCEPT ![r] = "done"]
    /\ UNCHANGED <<arg, hvars, mvars>>

\* every rank holds Comm::world() and has called nothing yet
InitC ==
    /\ kind = "Comm"
    /\ ndebug = FALSE
    /\ slot = [s \in Slots |-> IF s = 1 THEN [st |-> "live", own |-> "ref", h |-> MPI_COMM_WORLD]
                                      ELSE FreeSlot]
    /\ res = [i \in Ids |-> "unalloc"]
    /\ ndestroy = [h \in HandleVals |-> 0]
    /\ proc = "running"
    /\ released = {}
    /\ last = Op("from_handle", "ref")
    /\ pc = [r \in Ranks |-> "idle"]
    /\ arg = [r \in Ranks |-> NoCall]
    /\ InitM

NextC ==
    \/ \E r \in Ranks, op \in CollectiveOps, root \in Ranks : Call(r, op, root)
    \/ \E r \in Ranks : Enter(r)
    \/ \E r \in Ranks : Complete(r)
    \/ \E r \in Ranks : Finish(r)

\* a process that can go on running its library call does so
SpecColl ==
    /\ InitC
    /\ [][NextC]_vars
    /\ \A r \in Ranks : WF_vars(Enter(r)) /\ WF_vars(Complete(r))

\* =================================================== claims, Part II
\* rank r stands at a root-only call naming another rank as root
Misuses(r) ==
    /\ pc[r] = "called"
    /\ arg[r].op \in RootOnlyOps
    /\ arg[r].root # rank(r)

AllTerminated == \A q \in Ranks : pc[q] \in Terminated

\* C10: a gather_into_root or reduce_into_root call whose root argument is
\* not the caller's rank aborts the whole communicator before entering the
\* collective: the step that runs it leaves every process ended, no such call
\* is ever inside the collective, and from it every process eventually ends.
C10_RootOnlyMisuseAbortsAll ==
    /\ [][\A r \in Ranks :
            (Misuses(r) /\ Enter(r)) => (pc'[r] = "aborted" /\ AllTerminated')]_vars
    /\ [](\A r \in Ranks :
            (pc[r] = "in_collective" /\ arg[r].op \in RootOnlyOps) => arg[r].root = rank(r))
    /\ \A r \in Ranks : Misuses(r) ~> AllTerminated

\* a misplaced root-only call has aborted, and the root it named, which had
\* called the matching collective, was killed by it
C10_Witness ==
    \E r \in Ranks :
        /\ pc[r] = "aborted"
        /\ arg[r].op \in RootOnlyOps
        /\ arg[r].root # rank(r)
        /\ pc[arg[r].root] = "killed"
        /\ Coll(arg[arg[r].root].op) = Coll(arg[r].op)
        /\ arg[arg[r].root].root = arg[r].root
        /\ AllTerminated

\* ---- C11
\* C11: on the root rank, reduce and reduce_into_root with a non-null receive
\* buffer shorter than the send count abort the whole communicator and never
\* enter the underlying reduction.
C11_ShortRecvAbortsReduce ==
    \A r \in Ranks :
        (/\ pc[r] = "called"
         /\ Coll(arg[r].op) = "MPI_Reduce"
         /\ arg[r].root = rank(r))
            => call(pc, r, arg[r], "small", FALSE) = {abort(pc, r)}

\* =================== Part III: element counts forwarded to the transport
\* int and std::size_t are modelled IntBits and IntBits + 1 bits wide.
IntBits == 3
INT_MAX == 2 ^ (IntBits - 1) - 1
SIZE_MAX == 2 ^ (IntBits + 1) - 1
Counts == 0 .. SIZE_MAX

\* conversion of a std::size_t to int: the value modulo 2^IntBits
to_int(n) ==
    LET m == n % (2 ^ IntBits)
    IN  IF m > INT_MAX THEN m - 2 ^ IntBits ELSE m

\* operations that test the count against numeric_limits<int>::max() first
CheckedOps == {"immediate_send", "immediate_recv", "recv", "recv_with_status",
               "reduce", "all_reduce", "range_incl", "range_excl",
               "wait_any", "wait_all", "wait_some"}

\* WinImpl::get and WinImpl::put hand recv_count / send_count to MPI_Get /
\* MPI_Put as they are
UncheckedOps == {"win_get", "win_put"}

CountOps == CheckedOps \cup UncheckedOps

\* operations that return a UniqueRequest
RequestOps == {"immediate_send", "immediate_recv"}

\* throw std::out_of_range(...) before the transport is called
out_of_range(op, n) ==
    [op |-> op, count |-> n, result |-> "out_of_range", called |-> FALSE,
     passed |-> 0, request |-> FALSE]

\* the transport call, with the count as its int parameter receives it
transport(op, n) ==
    [op |-> op, count |-> n, result |-> "returned", called |-> TRUE,
     passed |-> to_int(n), request |-> op \in RequestOps]

\* the count handling of each operation
forward(op, n) ==
    IF op \in CheckedOps
    THEN IF n > INT_MAX THEN out_of_range(op, n) ELSE transport(op, n)
    ELSE transport(op, n)

\* ---- actions
Forward(op, n) ==
    /\ xfer' = forward(op, n)
    /\ UNCHANGED xfer_frame

\* a process holding Comm::world() that has called nothing yet
QuietH ==
    /\ kind = "Comm"
    /\ ndebug = FALSE
    /\ slot = [s \in Slots |-> IF s = 1 THEN [st |-> "live", own |-> "ref", h |-> MPI_COMM_WORLD]
                                      ELSE FreeSlot]
    /\ res = [i \in Ids |-> "unalloc"]
    /\ ndestroy = [h \in HandleVals |-> 0]
    /\ proc = "running"
    /\ released = {}
    /\ last = Op("from_handle", "ref")

InitQ == QuietH /\ pc = NoRanks /\ arg = NoRanks /\ InitM

NextCount == \E op \in CountOps, n \in Counts : Forward(op, n)

SpecCount == InitQ /\ [][NextCount]_vars

\* ---- C12
\* C12: an operation that forwards a caller's element count to an int
\* parameter of the transport throws a range error when the count exceeds
\* INT_MAX, without calling the transport and without creating a request, and
\* the transport never receives a count other than the caller's.
C12_CountNeverTruncated ==
    xfer.op # "none" =>
        /\ xfer.count > INT_MAX =>
              xfer.result = "out_of_range" /\ ~xfer.called /\ ~xfer.request
        /\ xfer.called => xfer.passed = xfer.count

\* ============================ Part IV: completion of several requests
\* The requests span is a set S of owning request objects; the position of a
\* request in the span is its rank in S.  The std::vector<int> that
\* wait_some_into appends to is batch.indices.

MaxIdx == 3

MPI_UNDEFINED == -32766

\* std::nullopt for the statuses argument of wait_some
nullopt == -1

Pos(S, s) == Cardinality({x \in S : x < s})

SlotAt(S, i) == CHOOSE s \in S : Pos(S, s) = i

\* the requests of the span that are not MPI_REQUEST_NULL
Active(w, S) == {s \in S : w.slot[s].h # null(kind)}

Zeros(n) == [i \in 1 .. n |-> 0]

Range(f) == {f[i] : i \in DOMAIN f}

\* sequences without repetition over the set P, of length 1 .. Cardinality(P)
Orderings(P) ==
    UNION {{f \in [1 .. n -> P] : \A i, j \in 1 .. n : f[i] = f[j] => i = j}
              : n \in 1 .. Cardinality(P)}

\* what MPI_Waitsome may report: some, at least one, of the active requests
Completions(w, S) ==
    IF Active(w, S) = {} THEN {<<>>}
    ELSE Orderings({Pos(S, s) : s \in Active(w, S)})

\* MPI_Waitsome(n, requests, &outcount, indices, statuses) completing the
\* requests at the positions ix: each is deallocated and its handle set to
\* MPI_REQUEST_NULL; without an active request outcount is MPI_UNDEFINED
MPI_Waitsome(w, S, ix) ==
    IF Active(w, S) = {}
    THEN [w |-> w, n |-> MPI_UNDEFINED, out |-> <<>>]
    ELSE [w |-> wait_all(w, {SlotAt(S, p) : p \in Range(ix)}),
          n |-> Len(ix), out |-> ix]

\* the call left by an exception: nothing was waited for
thrown(w, what) == [w |-> w, result |-> what, n |-> 0, out |-> <<>>]

\* after check_result: the MPI error code turned into an exception
checked(w) ==
    [w |-> w, result |-> IF Running(w) THEN "returned" ELSE "exception",
     n |-> 0, out |-> <<>>]

\* mpi::wait_all(std::span<UniqueRequest>, std::span<Status>)
wait_all_with_statuses(w, S, nstat) ==
    IF Cardinality(S) > INT_MAX THEN thrown(w, "out_of_range")
    ELSE IF nstat < Cardinality(S) THEN thrown(w, "logic_error")
    ELSE checked(wait_all(w, S))

\* variant: wait_all_statuses that returns the statuses without waiting
wait_all_statuses_nowait(w, S) == checked(w)

\* mpi::wait_all_statuses: a statuses vector of requests.size() elements
wait_all_statuses(w, S) == wait_all_with_statuses(w, S, Cardinality(S))

\* variant: wait_some without the test of the indices span
wait_some_unchecked(w, S, nidx, nstat, ix) ==
    LET m == MPI_Waitsome(w, S, ix) IN
    IF ~Running(m.w) THEN thrown(m.w, "exception")
    ELSE IF m.n = MPI_UNDEFINED THEN thrown(m.w, "logic_error")
    ELSE [w |-> m.w, result |-> "returned", n |-> m.n, out |-> m.out]

\* mpi::wait_some(requests, indices, statuses)
wait_some(w, S, nidx, nstat, ix) ==
    IF Cardinality(S) > INT_MAX THEN thrown(w, "out_of_range")
    ELSE IF nidx < Cardinality(S) THEN thrown(w, "logic_error")
    ELSE IF nstat # nullopt /\ nstat < Cardinality(S) THEN thrown(w, "logic_error")
    ELSE LET m == MPI_Waitsome(w, S, ix) IN
         IF ~Running(m.w) THEN thrown(m.w, "exception")
         ELSE IF m.n = MPI_UNDEFINED THEN thrown(m.w, "logic_error")
         ELSE [w |-> m.w, result |-> "returned", n |-> m.n, out |-> m.out]

\* variant: wait_some_into that writes from the start of the vector
wait_some_into_overwrite(w, S, indices, ix) ==
    LET r == wait_some(w, S, Cardinality(S), nullopt, ix)
    IN  [r EXCEPT !.out = IF r.result = "returned" THEN r.out ELSE indices]

\* mpi::wait_some_into(requests, indices): the vector is grown by
\* requests.size(), wait_some writes into the new part, and the vector is cut
\* back to the original size plus the number completed; an exception of
\* wait_some leaves it grown.  out is the vector afterwards.
wait_some_into(w, S, indices, ix) ==
    LET original_indices_size == Len(indices)
        resized == indices \o Zeros(Cardinality(S))
        r == wait_some(w, S, Len(resized) - original_indices_size, nullopt, ix)
        written == [i \in 1 .. Len(resized) |->
                       IF i > original_indices_size /\ i - original_indices_size <= Len(r.out)
                       THEN r.out[i - original_indices_size] ELSE resized[i]]
    IN  IF r.result = "returned"
        THEN [r EXCEPT !.out = SubSeq(written, 1, original_indices_size + r.n)]
        ELSE [r EXCEPT !.out = resized]

\* ---- actions
IsSpan(S) == S # {} /\ \A s \in S : IsUnique(s)

WaitAllStatuses(S, nstat) ==
    /\ proc = "running" /\ kind = "Request" /\ IsSpan(S)
    /\ LET r == wait_all_with_statuses(World, S, nstat) IN
          /\ CommitH(r.w, Op("wait_all", "unique"))
          /\ batch' = [batch EXCEPT !.op = "wait_all", !.result = r.result, !.n = r.n]
    /\ UNCHANGED batch_frame

WaitSome(S, nidx, nstat) ==
    /\ proc = "running" /\ kind = "Request" /\ IsSpan(S)
    /\ \E ix \in Completions(World, S) :
          LET r == wait_some(World, S, nidx, nstat, ix) IN
              /\ CommitH(r.w, Op("wait_some", "unique"))
              /\ batch' = [batch EXCEPT !.op = "wait_some", !.result = r.result, !.n = r.n]
    /\ UNCHANGED batch_frame

WaitSomeInto(S) ==
    /\ proc = "running" /\ kind = "Request" /\ IsSpan(S)
    /\ Len(batch.indices) + Cardinality(S) <= MaxIdx
    /\ \E ix \in Completions(World, S) :
          LET r == wait_some_into(World, S, batch.indices, ix) IN
              /\ CommitH(r.w, Op("wait_some_into", "unique"))
              /\ batch' = [op |-> "wait_some_into", result |-> r.result, n |-> r.n,
                           indices |-> r.out]
    /\ UNCHANGED batch_frame

\* the caller empties its indices vector
ClearIndices ==
    /\ proc = "running" /\ kind = "Request"
    /\ batch.indices # <<>>
    /\ batch' = [batch EXCEPT !.op = "clear", !.indices = <<>>]
    /\ UNCHANGED <<hvars, batch_frame>>

InitB == InitH /\ kind = "Request"

NextB ==
    \/ \E s \in Slots : Create(s)
    \/ \E s \in Slots : Construct(s, "unique", null(kind))
    \/ \E s \in Slots : IsUnique(s) /\ Wait(s)
    \/ \E S \in SUBSET Slots, nstat \in 0 .. MaxSlots : WaitAllStatuses(S, nstat)
    \/ \E S \in SUBSET Slots, nidx \in 0 .. MaxSlots, nstat \in {nullopt} \cup (0 .. MaxSlots) :
          WaitSome(S, nidx, nstat)
    \/ \E S \in SUBSET Slots : WaitSomeInto(S)
    \/ ClearIndices

SpecBatch == InitB /\ [][NextB]_vars

\* =================================================== claims, Part IV
\* the requests of the span are as they were
SpanUntouched(S) ==
    /\ \A s \in S : slot'[s] = slot[s]
    /\ res' = res /\ ndestroy' = ndestroy /\ proc' = proc

\* C13: wait_all with a statuses buffer shorter than the request list, and
\* wait_some with an indices buffer or a supplied statuses buffer shorter
\* than the request list, throw a logic error and leave every request of the
\* list as it was: no wait is issued.
C13_ShortBufferRejected ==
    [][/\ \A S \in SUBSET Slots, nstat \in 0 .. MaxSlots :
            (WaitAllStatuses(S, nstat) /\ nstat < Cardinality(S)) =>
                batch'.result = "logic_error" /\ SpanUntouched(S)
       /\ \A S \in SUBSET Slots, nidx \in 0 .. MaxSlots, nstat \in {nullopt} \cup (0 .. MaxSlots) :
            (/\ WaitSome(S, nidx, nstat)
             /\ nidx < Cardinality(S) \/ (nstat # nullopt /\ nstat < Cardinality(S))) =>
                batch'.result = "logic_error" /\ SpanUntouched(S)
      ]_vars

\* a batch wait was rejected while a request of the process is pending
C13_Witness ==
    /\ proc = "running"
    /\ batch.op \in {"wait_all", "wait_some"}
    /\ batch.result = "logic_error"
    /\ last.op = batch.op
    /\ \E s \in Slots : IsUnique(s) /\ slot[s].h \in Ids /\ res[slot[s].h] = "live"

\* the requests of the span S this step completed
Completed(S) == {s \in S : slot[s].h # null(kind) /\ slot'[s].h = null(kind)}

\* C14: a successful wait_some_into in which k requests complete leaves the
\* vector k longer with its original entries in place; the appended entries
\* are the distinct positions of the completed requests, which are null
\* afterwards, and the other requests are unchanged.
C14_WaitSomeIntoAppends ==
    [][\A S \in SUBSET Slots :
          (WaitSomeInto(S) /\ batch'.result = "returned") =>
             LET old == batch.indices
                 new == batch'.indices
                 k == Cardinality(Completed(S))
             IN  /\ k = batch'.n /\ k >= 1
                 /\ Len(new) = Len(old) + k
                 /\ SubSeq(new, 1, Len(old)) = old
                 /\ {new[i] : i \in Len(old) + 1 .. Len(new)} = {Pos(S, s) : s \in Completed(S)}
                 /\ \A i, j \in Len(old) + 1 .. Len(new) : new[i] = new[j] => i = j
                 /\ \A s \in Slots \ Completed(S) : slot'[s] = slot[s]
                 /\ \A s \in Completed(S) : res'[slot[s].h] = "completed"
      ]_vars

\* wait_some_into has appended the position of the one request it completed
\* behind the entry an earlier call had left in the vector
C14_Witness ==
    /\ proc = "running"
    /\ batch.op = "wait_some_into" /\ batch.result = "returned"
    /\ batch.n = 1 /\ Len(batch.indices) = 2
    /\ batch.indices[1] # batch.indices[2]
    /\ \A x \in Ids : res[x] = "completed"

\* ========================== Part V: attributes attached to communicators
\* One keyval of a value type T that is copy-constructible or not.  attrs.at
\* maps a communicator identifier to the value (a T allocated with new)
\* MPI holds for the key there, 0 when none; attrs.box is the heap of values.

\* the communicator identifier names a communicator MPI can work on
ValidComm(w, h) ==
    h \in SystemHandles("Comm") \/ (h \in Ids /\ w.res[h] = "live")

\* the result of new T(...)
NewBox(a) ==
    CHOOSE b \in Boxes : a.box[b].st = "unalloc" /\
                         \A c \in Boxes : a.box[c].st = "unalloc" => b <= c

HasBox(a) == \E b \in Boxes : a.box[b].st = "unalloc"

\* get_delete_fn<T>(): delete reinterpret_cast<T *>(attribute_val)
get_delete_fn(a, b) ==
    [a EXCEPT !.box[b] = [st |-> "deleted", val |-> FALSE, ndelete |-> @.ndelete + 1]]

\* variant: a copy procedure that hands the new communicator the same value
get_copy_fn_shallow(a, old, new) == [a EXCEPT !.at[new] = a.at[old]]

\* get_copy_fn<T>(): for a copy-constructible T the value of the new
\* communicator is new T(val_in) and flag = 1; otherwise the null copy
\* function, which leaves flag = 0
get_copy_fn(a, old, new) ==
    IF a.key = "copyable"
    THEN LET b == NewBox(a)
         IN  [a EXCEPT !.box[b] = [st |-> "alive", val |-> a.box[a.at[old]].val,
                                   ndelete |-> 0],
                       !.at[new] = b]
    ELSE a

\* the two results of an operation: the wrappers and resources, the attributes
Both(w, a) == [w |-> w, a |-> a]

\* check_result on an erroneous call
Failed(w, a) == Both([w EXCEPT !.proc = "exception"], a)

\* variant: MPI_Comm_set_attr that forgets the previous value
MPI_Comm_set_attr_keep(w, a, h, b) ==
    IF ~ValidComm(w, h) THEN Failed(w, a)
    ELSE Both(w, [a EXCEPT !.at[h] = b])

\* MPI_Comm_set_attr(comm, keyval, ptr): the delete procedure is called on
\* a value already stored under the key, then ptr is stored
MPI_Comm_set_attr(w, a, h, b) ==
    IF ~ValidComm(w, h) THEN Failed(w, a)
    ELSE LET a1 == IF a.at[h] # 0 THEN get_delete_fn(a, a.at[h]) ELSE a
         IN  Both(w, [a1 EXCEPT !.at[h] = b])

\* T *create_attr(keyval, args...) / set_attr(keyval, arg)
create_attr(w, a, s, v) ==
    LET ptr == NewBox(a)
        a1 == [a EXCEPT !.box[ptr] = [st |-> "alive", val |-> v, ndelete |-> 0],
                        !.got = ptr]
    IN  MPI_Comm_set_attr(w, a1, w.slot[s].h, ptr)

\* delete_attr(keyval): MPI_Comm_delete_attr calls the delete procedure on
\* the stored value; without a stored value the library either does
\* nothing or reports an error
delete_attr(w, a, s, lenient) ==
    LET h == w.slot[s].h IN
    IF ~ValidComm(w, h) THEN Failed(w, a)
    ELSE IF a.at[h] # 0 THEN Both(w, [get_delete_fn(a, a.at[h]) EXCEPT !.at[h] = 0])
    ELSE IF lenient THEN Both(w, a)
    ELSE Failed(w, a)

\* T *get_attr(keyval): the stored pointer, nullptr when flag = 0
get_attr(w, a, s) ==
    LET h == w.slot[s].h IN
    IF ~ValidComm(w, h) THEN Failed(w, a)
    ELSE Both(w, [a EXCEPT !.got = a.at[h]])

\* UniqueComm CommImpl::dup(): MPI_Comm_dup creates the communicator and
\* runs the copy procedure of every key that has a value on the original
dup(w, a, src, dst) ==
    LET h == w.slot[src].h IN
    IF ~ValidComm(w, h) THEN Failed(w, a)
    ELSE LET w1 == factory(w, dst)
             new == w1.slot[dst].h
         IN  Both(w1, IF a.at[h] # 0 THEN get_copy_fn(a, h, new) ELSE a)

\* MPI_Comm_free runs the delete procedure of every value stored on the
\* communicators freed between w and w2
MPI_Comm_free_attrs(a, w, w2) ==
    LET freed == {x \in Ids : w.res[x] = "live" /\ w2.res[x] = "destroyed"}
    IN  [a EXCEPT !.at = [c \in HandleVals |-> IF c \in freed THEN 0 ELSE a.at[c]],
                  !.box = [b \in Boxes |->
                              IF \E c \in freed : a.at[c] = b
                              THEN get_delete_fn(a, b).box[b]
                              ELSE a.box[b]]]

\* ~Comm() / ~UniqueComm()
teardown_comm(w, a, s) ==
    LET w2 == dtor(w, s) IN Both(w2, MPI_Comm_free_attrs(a, w, w2))

\* ---- actions
\* attrs.got is the pointer the last call returned, 0 for nullptr or none
CommitA(r, name, own) ==
    /\ CommitH(r.w, Op(name, own))
    /\ attrs' = [r.a EXCEPT !.op = name,
                            !.got = IF name \in {"get_attr", "create_attr"} /\ Running(r.w)
                                    THEN r.a.got ELSE 0]
    /\ UNCHANGED attrs_frame

\* Comm::create_keyval<T>()
CreateKeyval(k) ==
    /\ proc = "running" /\ kind = "Comm" /\ attrs.key = "none"
    /\ attrs' = [attrs EXCEPT !.key = k, !.op = "create_keyval"]
    /\ UNCHANGED <<hvars, attrs_frame>>

CreateAttr(s, v) ==
    /\ proc = "running" /\ kind = "Comm" /\ attrs.key # "none"
    /\ slot[s].st = "live" /\ HasBox(attrs)
    /\ CommitA(create_attr(World, attrs, s, v), "create_attr", slot[s].own)

DeleteAttr(s, lenient) ==
    /\ proc = "running" /\ kind = "Comm" /\ attrs.key # "none"
    /\ slot[s].st = "live"
    /\ CommitA(delete_attr(World, attrs, s, lenient), "delete_attr", slot[s].own)

GetAttr(s) ==
    /\ proc = "running" /\ kind = "Comm" /\ attrs.key # "none"
    /\ slot[s].st = "live"
    /\ CommitA(get_attr(World, attrs, s), "get_attr", slot[s].own)

Dup(src, dst) ==
    /\ proc = "running" /\ kind = "Comm"
    /\ slot[src].st = "live" /\ IsNew(dst)
    /\ \E i \in Ids : res[i] = "unalloc"
    /\ HasBox(attrs)
    /\ CommitA(dup(World, attrs, src, dst), "dup", slot[src].own)

TeardownComm(s) ==
    /\ proc = "running" /\ kind = "Comm"
    /\ slot[s].st = "live"
    /\ CommitA(teardown_comm(World, attrs, s), "teardown", slot[s].own)

NextA ==
    \/ \E k \in {"copyable", "noncopyable"} : CreateKeyval(k)
    \/ \E s \in Slots : Construct(s, "ref", MPI_COMM_WORLD)
    \/ \E s \in Slots, v \in Vals : CreateAttr(s, v)
    \/ \E s \in Slots, lenient \in BOOLEAN : DeleteAttr(s, lenient)
    \/ \E s \in Slots : GetAttr(s)
    \/ \E src, dst \in Slots : Dup(src, dst)
    \/ \E s \in Slots : TeardownComm(s)

SpecAttrs == InitQ /\ [][NextA]_vars

\* =================================================== claims, Part V
\* C15: dup() of a communicator that carries an attribute gives, for a
\* copy-constructible value type, a duplicate whose attribute is a separate
\* value equal to the original's, and for a value type that is not
\* copy-constructible a duplicate without the attribute; the original keeps
\* its value either way, and get_attr returns what is stored.
C15_DupCopiesAttribute ==
    [][/\ \A src, dst \in Slots :
            (Dup(src, dst) /\ proc' = "running" /\ attrs.at[slot[src].h] # 0) =>
                LET orig == slot[src].h
                    new == slot'[dst].h
                    b == attrs.at[orig]
                    c == attrs'.at[new]
                IN  /\ new \in Ids /\ new # orig
                    /\ attrs'.at[orig] = b /\ attrs'.box[b] = attrs.box[b]
                    /\ attrs.key = "copyable" =>
                          /\ c # 0 /\ c # b
                          /\ attrs'.box[c].st = "alive"
                          /\ attrs'.box[c].val = attrs.box[b].val
                    /\ attrs.key = "noncopyable" =>
                          c = 0 /\ attrs'.box = attrs.box
       /\ \A s \in Slots :
            (GetAttr(s) /\ proc' = "running") =>
                attrs'.got = attrs.at[slot[s].h] /\ attrs'.at = attrs.at
      ]_vars

\* a communicator with a value was duplicated and the duplicate holds its
\* own equal value
C15_Witness ==
    /\ proc = "running" /\ attrs.op = "dup" /\ attrs.key = "copyable"
    /\ \E s \in Slots :
          /\ IsUnique(s) /\ slot[s].h \in Ids
          /\ attrs.at[slot[s].h] # 0
          /\ attrs.at[MPI_COMM_WORLD] # 0
          /\ attrs.at[slot[s].h] # attrs.at[MPI_COMM_WORLD]
          /\ attrs.box[attrs.at[slot[s].h]].val = TRUE
          /\ attrs.box[attrs.at[MPI_COMM_WORLD]].val = TRUE

\* the values get_attr can return
Retrievable ==
    {attrs.at[c] : c \in {h \in HandleVals : ValidComm(World, h)}} \ {0}

\* C16: an attribute value is released by the delete procedure at most
\* once and never while get_attr can return it; it is released exactly when
\* its attribute is deleted or replaced or its communicator is destroyed.
C16_ValueReleasedOnce ==
    /\ [](\A b \in Boxes : attrs.box[b].ndelete <= 1)
    /\ [](\A b \in Retrievable : attrs.box[b].st = "alive" /\ attrs.box[b].ndelete = 0)
    /\ [][/\ \A b \in Boxes :
               attrs'.box[b].ndelete # attrs.box[b].ndelete =>
                  /\ attrs'.op \in {"create_attr", "delete_attr", "teardown"}
                  /\ \E c \in HandleVals : attrs.at[c] = b /\ attrs'.at[c] # b
          /\ \A c \in HandleVals :
               (attrs.at[c] # 0 /\ attrs'.at[c] # attrs.at[c]) =>
                  attrs'.box[attrs.at[c]].ndelete = attrs.box[attrs.at[c]].ndelete + 1
          /\ \A c \in Ids :
               (res[c] = "live" /\ res'[c] = "destroyed") => attrs'.at[c] = 0
         ]_vars

\* the value copied to a duplicate was released when the duplicate was torn
\* down, and the original's value is still there
C16_Witness ==
    /\ proc = "running" /\ attrs.op = "teardown"
    /\ \E b \in Boxes : attrs.box[b].st = "deleted" /\ attrs.box[b].ndelete = 1
    /\ attrs.at[MPI_COMM_WORLD] # 0
    /\ attrs.box[attrs.at[MPI_COMM_WORLD]].st = "alive"
    /\ \E c \in Ids : res[c] = "destroyed"

\* ================== Part VI: groups and communicators created from them
\* The processes of a communicator of CommSize ranks run the same group
\* calls.  A group is the sequence of the ranks it holds, in group order;
\* grp.g is the group built so far, grp.ranges the triples the last range
\* call handed to MPI, grp.comm[r + 1] what create(group) returned on rank r.

CommSize == 3
Members == 0 .. (CommSize - 1)

\* variant: a range that stops before `to`
unit_stride_open(from, to) == [first |-> from, last |-> to - 1, stride |-> 1]

\* GroupRange::unit_stride(from, to): stride keeps its default, 1
unit_stride(from, to) == [first |-> from, last |-> to, stride |-> 1]

\* the positions a (first, last, stride) triple names, for stride > 0
Positions(range) ==
    {i \in range.first .. range.last : (i - range.first) % range.stride = 0}

\* a triple MPI accepts for a group of n ranks
ValidRange(range, n) ==
    /\ range.stride > 0
    /\ 0 <= range.first /\ range.first <= range.last /\ range.last < n

\* the subsequence of g at the positions (counted from 0) in keep
RECURSIVE Select(_, _, _)
Select(g, keep, i) ==
    IF i >= Len(g) THEN <<>>
    ELSE (IF i \in keep THEN <<g[i + 1]>> ELSE <<>>) \o Select(g, keep, i + 1)

\* MPI_Group_range_incl(group, 1, {range}, &newgroup)
MPI_Group_range_incl(g, range) == Select(g, Positions(range), 0)

\* MPI_Group_range_excl(group, 1, {range}, &newgroup)
MPI_Group_range_excl(g, range) ==
    Select(g, (0 .. (Len(g) - 1)) \ Positions(range), 0)

\* UniqueGroup GroupImpl::range_incl(rank_t from, rank_t to)
range_incl(G, from, to) ==
    LET range == unit_stride(from, to) IN
    IF ~ValidRange(range, Len(G.g))
    THEN [G EXCEPT !.op = "range_incl", !.result = "exception", !.ranges = <<range>>]
    ELSE [G EXCEPT !.op = "range_incl", !.result = "returned", !.ranges = <<range>>,
                   !.g = MPI_Group_range_incl(G.g, range)]

\* UniqueGroup GroupImpl::range_excl(rank_t from, rank_t to)
range_excl(G, from, to) ==
    LET range == unit_stride(from, to) IN
    IF ~ValidRange(range, Len(G.g))
    THEN [G EXCEPT !.op = "range_excl", !.result = "exception", !.ranges = <<range>>]
    ELSE [G EXCEPT !.op = "range_excl", !.result = "returned", !.ranges = <<range>>,
                   !.g = MPI_Group_range_excl(G.g, range)]

\* UniqueGroup CommImpl::group(): the ranks of the communicator in order
group(G) ==
    [op |-> "group", result |-> "returned", g |-> [i \in 1 .. CommSize |-> i - 1],
     ranges |-> <<>>, comm |-> [i \in 1 .. CommSize |-> "uncalled"]]

\* variant: MPI_Comm_create that gives every caller a communicator
MPI_Comm_create_all(g, r) == "nonnull"

\* MPI_Comm_create(comm, group, &newcomm) on rank r: a new communicator
\* for a member of the group, MPI_COMM_NULL for the others
MPI_Comm_create(g, r) ==
    IF \E i \in 1 .. Len(g) : g[i] = r THEN "nonnull" ELSE "null"

\* UniqueComm CommImpl::create(group) on rank r
create(G, r) ==
    [G EXCEPT !.op = "create", !.comm[r + 1] = MPI_Comm_create(G.g, r)]

\* ---- actions
WorldGroup ==
    /\ grp' = group(grp)
    /\ UNCHANGED grp_frame

NoneCreated == \A r \in Members : grp.comm[r + 1] = "uncalled"

RangeIncl(from, to) ==
    /\ grp.op # "none" /\ grp.result = "returned" /\ NoneCreated
    /\ grp' = range_incl(grp, from, to)
    /\ UNCHANGED grp_frame

RangeExcl(from, to) ==
    /\ grp.op # "none" /\ grp.result = "returned" /\ NoneCreated
    /\ grp' = range_excl(grp, from, to)
    /\ UNCHANGED grp_frame

CreateComm(r) ==
    /\ grp.op # "none" /\ grp.result = "returned"
    /\ grp.comm[r + 1] = "uncalled"
    /\ grp' = create(grp, r)
    /\ UNCHANGED grp_frame

NextG ==
    \/ WorldGroup
    \/ \E from, to \in Members : RangeIncl(from, to)
    \/ \E from, to \in Members : RangeExcl(from, to)
    \/ \E r \in Members : CreateComm(r)

SpecGroup == InitQ /\ [][NextG]_vars

\* =================================================== claims, Part VI
\* the ranks a group holds
RanksOf(g) == {g[i] : i \in 1 .. Len(g)}

\* C17: create(group) returns a non-null communicator on the processes
\* whose rank is in the group and a null communicator on every other
\* process; once all have called, the non-null ones are exactly the group.
C17_CreateFollowsMembership ==
    /\ [][\A r \in Members :
            CreateComm(r) =>
                /\ grp'.comm[r + 1] = (IF r \in RanksOf(grp.g) THEN "nonnull" ELSE "null")
                /\ \A q \in Members \ {r} : grp'.comm[q + 1] = grp.comm[q + 1]
                /\ grp'.g = grp.g
         ]_vars
    /\ []((grp.op = "create" /\ \A r \in Members : grp.comm[r + 1] # "uncalled") =>
            {r \in Members : grp.comm[r + 1] = "nonnull"} = RanksOf(grp.g))

\* every process has called create with a group that holds some of the
\* ranks and not others
C17_Witness ==
    /\ grp.op = "create"
    /\ \A r \in Members : grp.comm[r + 1] # "uncalled"
    /\ \E r, q \in Members : grp.comm[r + 1] = "nonnull" /\ grp.comm[q + 1] = "null"
    /\ {r \in Members : grp.comm[r + 1] = "nonnull"} = RanksOf(grp.g)

\* C18: for a group of N ranks and 0 <= from <= to < N, range_incl(from,
\* to) yields the ranks at positions from..to and range_excl(from, to) the
\* ranks outside them, in group order, each built from the single triple
\* (first = from, last = to, stride = 1).
C18_UnitStrideRanges ==
    [][\A from, to \in Members :
          (from <= to /\ to < Len(grp.g)) =>
             /\ RangeIncl(from, to) =>
                   /\ grp'.result = "returned"
                   /\ grp'.g = SubSeq(grp.g, from + 1, to + 1)
                   /\ grp'.ranges = <<[first |-> from, last |-> to, stride |-> 1]>>
             /\ RangeExcl(from, to) =>
                   /\ grp'.result = "returned"
                   /\ grp'.g = SubSeq(grp.g, 1, from) \o SubSeq(grp.g, to + 2, Len(grp.g))
                   /\ RanksOf(grp'.g) = RanksOf(grp.g) \ {grp.g[i + 1] : i \in from .. to}
                   /\ grp'.ranges = <<[first |-> from, last |-> to, stride |-> 1]>>
      ]_vars

\* a range call cut the group of all ranks down to a proper, non-empty part
C18_Witness ==
    /\ grp.op \in {"range_incl", "range_excl"} /\ grp.result = "returned"
    /\ grp.ranges # <<>> /\ grp.ranges[1].first < grp.ranges[1].last
    /\ Len(grp.g) >= 1 /\ Len(grp.g) < CommSize

\* ============================== Part VII: one-sided access to a window
\* The ranks of a communicator run one of the two programs of
\* mpi_rma_test.cpp on a window.  All sequences are indexed by rank + 1:
\* win.at is the instruction a rank stands at, win.mem the window memory a
\* rank exposes, win.buf its local variables, win.pend the transfers it has
\* started that MPI has not carried out yet; win.excl holds <<target, rank>>
\* for an exclusive lock, win.shared the ranks inside lock_all.

\* stands for the caller's own rank in an instruction
my_rank == -1

\* what memory nobody has written may hold
Junk == (-1) .. NumRanks

\* local variables of a program: index 0 .. NumRanks
Bufs == 0 .. NumRanks

I(op, who, buf, target, disp, val, nocheck) ==
    [op |-> op, who |-> who, buf |-> buf, target |-> target, disp |-> disp,
     val |-> val, nocheck |-> nocheck]

\* TEST(RMA, LockUnlock): init is variable 0, sum is variable 1
LockUnlock ==
    << I("lock", "rank0", 0, 0, 0, 0, TRUE),
       I("set", "rank0", 0, 0, 0, 0, FALSE),
       I("put", "rank0", 0, 0, 0, 0, FALSE),
       I("unlock", "rank0", 0, 0, 0, 0, FALSE),
       I("barrier", "all", 0, 0, 0, 0, FALSE),
       I("lock", "all", 0, 0, 0, 0, FALSE),
       I("get", "all", 1, 0, 0, 0, FALSE),
       I("add1", "all", 1, 0, 0, 0, FALSE),
       I("put", "all", 1, 0, 0, 0, FALSE),
       I("unlock", "all", 0, 0, 0, 0, FALSE),
       I("barrier", "all", 0, 0, 0, 0, FALSE),
       I("lock_all", "all", 0, 0, 0, 0, FALSE),
       I("get", "all", 1, 0, 0, 0, FALSE),
       I("unlock_all", "all", 0, 0, 0, 0, FALSE),
       I("expect_sum", "all", 1, 0, 0, 0, FALSE) >>

\* TEST(RMA, GetPut): ranks[t] is variable t, my_rank is variable NumRanks
GetPut ==
    << I("fill", "all", 0, 0, 0, my_rank, FALSE),
       I("lock_all", "all", 0, 0, 0, 0, TRUE),
       I("barrier", "all", 0, 0, 0, 0, FALSE) >>
    \o [t \in 1 .. NumRanks |-> I("get", "all", t - 1, t - 1, t - 1, 0, FALSE)]
    \o << I("expect_gets", "all", 0, 0, 0, 0, FALSE),
          I("set", "all", NumRanks, 0, 0, my_rank, FALSE) >>
    \o [t \in 1 .. NumRanks |-> I("put", "all", NumRanks, t - 1, my_rank, 0, FALSE)]
    \o << I("barrier", "all", 0, 0, 0, 0, FALSE),
          I("expect_window", "all", 0, 0, 0, 0, FALSE),
          I("unlock_all", "all", 0, 0, 0, 0, FALSE) >>

Prog == IF win.test = "LockUnlock" THEN LockUnlock ELSE GetPut

Finished(r) == win.at[r + 1] > Len(Prog)

\* the instruction rank r stands at
Cur(r) == Prog[win.at[r + 1]]

\* rank r is to run the instruction `op` next
At(r, op) ==
    /\ win.test # "none" /\ ~Finished(r)
    /\ Cur(r).op = op
    /\ Cur(r).who = "all" \/ r = 0

Of(x, r) == IF x = my_rank THEN r ELSE x

advance(W, r) == [W EXCEPT !.at[r + 1] = @ + 1]

\* UniqueWin<rank_t>::allocate(comm, count) on every rank
allocate(test, junk) ==
    [test |-> test,
     at |-> [i \in 1 .. NumRanks |-> 1],
     mem |-> [i \in 1 .. NumRanks |->
                 IF test = "GetPut" THEN [d \in 1 .. NumRanks |-> junk]
                 ELSE IF i = 1 THEN <<junk>> ELSE <<>>],
     buf |-> [i \in 1 .. NumRanks |-> [b \in 1 .. NumRanks + 1 |-> junk]],
     pend |-> [i \in 1 .. NumRanks |-> {}],
     excl |-> {},
     shared |-> {}]

\* WinImpl::lock: MPI_Win_lock returns with the lock held; with
\* MPI_MODE_NOCHECK no lock is taken
lock(W, r, target, nocheck) ==
    IF nocheck THEN W ELSE [W EXCEPT !.excl = @ \cup {<<target, r>>}]

\* WinImpl::unlock: MPI_Win_unlock returns once the transfers of the epoch
\* are done
unlock(W, r, target) == [W EXCEPT !.excl = @ \ {<<target, r>>}]

\* WinImpl::lock_all / lock_all_no_check
lock_all(W, r, nocheck) ==
    IF nocheck THEN W ELSE [W EXCEPT !.shared = @ \cup {r}]

\* WinImpl::unlock_all
unlock_all(W, r) == [W EXCEPT !.shared = @ \ {r}]

\* the transfer a get or put stands for
Transfer(op, buf, target, disp, val) ==
    [op |-> op, buf |-> buf, target |-> target, disp |-> disp, val |-> val]

\* MPI carries a transfer out: a get stores the target's cell in the local
\* variable, a put stores the value taken from the local variable in the
\* target's cell
carry_out(W, r, x) ==
    IF x.op = "get"
    THEN [W EXCEPT !.buf[r + 1][x.buf + 1] = W.mem[x.target + 1][x.disp + 1]]
    ELSE [W EXCEPT !.mem[x.target + 1][x.disp + 1] = x.val]

\* WinImpl::get(recv, 1, target, target_disp): MPI_Get starts the
\* transfer, which is carried out any time from now to the end of the epoch
get(W, r, buf, target, disp) ==
    [W EXCEPT !.pend[r + 1] = @ \cup {Transfer("get", buf, target, disp, 0)}]

\* WinImpl::put(send, 1, target, target_disp): likewise for MPI_Put
put(W, r, buf, target, disp) ==
    [W EXCEPT !.pend[r + 1] =
        @ \cup {Transfer("put", buf, target, disp, W.buf[r + 1][buf + 1])}]

\* ---- actions
Allocate(test, junk) ==
    /\ win.test = "none"
    /\ win' = allocate(test, junk)
    /\ UNCHANGED win_frame

\* a rank other than 0 passes over the statements inside `if (rank == 0)`
Skip(r) ==
    /\ win.test # "none" /\ ~Finished(r)
    /\ Cur(r).who = "rank0" /\ r # 0
    /\ win' = advance(win, r)
    /\ UNCHANGED win_frame

Lock(r) ==
    /\ At(r, "lock")
    /\ Cur(r).nocheck \/ (win.shared = {} /\ \A q \in Ranks : <<Cur(r).target, q>> \notin win.excl)
    /\ win' = advance(lock(win, r, Cur(r).target, Cur(r).nocheck), r)
    /\ UNCHANGED win_frame

Unlock(r) ==
    /\ At(r, "unlock")
    /\ win.pend[r + 1] = {}
    /\ win' = advance(unlock(win, r, Cur(r).target), r)
    /\ UNCHANGED win_frame

LockAll(r) ==
    /\ At(r, "lock_all")
    /\ Cur(r).nocheck \/ win.excl = {}
    /\ win' = advance(lock_all(win, r, Cur(r).nocheck), r)
    /\ UNCHANGED win_frame

UnlockAll(r) ==
    /\ At(r, "unlock_all")
    /\ win.pend[r + 1] = {}
    /\ win' = advance(unlock_all(win, r), r)
    /\ UNCHANGED win_frame

Get(r) ==
    /\ At(r, "get")
    /\ win' = advance(get(win, r, Cur(r).buf, Of(Cur(r).target, r), Of(Cur(r).disp, r)), r)
    /\ UNCHANGED win_frame

Put(r) ==
    /\ At(r, "put")
    /\ win' = advance(put(win, r, Cur(r).buf, Of(Cur(r).target, r), Of(Cur(r).disp, r)), r)
    /\ UNCHANGED win_frame

\* MPI carries out a transfer rank r has started
CarryOut(r) ==
    /\ win.test # "none"
    /\ \E x \in win.pend[r + 1] :
          win' = [carry_out(win, r, x) EXCEPT !.pend[r + 1] = @ \ {x}]
    /\ UNCHANGED win_frame

\* rank_t const init = 0; / auto const my_rank = comm.rank();
SetVar(r) ==
    /\ At(r, "set")
    /\ win' = advance([win EXCEPT !.buf[r + 1][Cur(r).buf + 1] = Of(Cur(r).val, r)], r)
    /\ UNCHANGED win_frame

\* sum += 1;
Add1(r) ==
    /\ At(r, "add1")
    /\ win' = advance([win EXCEPT !.buf[r + 1][Cur(r).buf + 1] = @ + 1], r)
    /\ UNCHANGED win_frame

\* std::fill(win.begin(), win.end(), comm.rank());
Fill(r) ==
    /\ At(r, "fill")
    /\ win' = advance([win EXCEPT !.mem[r + 1] = [d \in 1 .. Len(@) |-> Of(Cur(r).val, r)]], r)
    /\ UNCHANGED win_frame

\* comm.barrier(): returns once every rank has reached it
Barrier(r) ==
    /\ At(r, "barrier")
    /\ \A q \in Ranks : win.at[q + 1] >= win.at[r + 1]
    /\ win' = advance(win, r)
    /\ UNCHANGED win_frame

\* EXPECT_EQ / ASSERT_EQ: reads, changes nothing
Expect(r) ==
    /\ win.test # "none" /\ ~Finished(r)
    /\ Cur(r).op \in {"expect_sum", "expect_gets", "expect_window"}
    /\ win' = advance(win, r)
    /\ UNCHANGED win_frame

NextLockUnlock ==
    \/ \E junk \in Junk : Allocate("LockUnlock", junk)
    \/ \E r \in Ranks : Skip(r)
    \/ \E r \in Ranks : Lock(r)
    \/ \E r \in Ranks : Unlock(r)
    \/ \E r \in Ranks : LockAll(r)
    \/ \E r \in Ranks : UnlockAll(r)
    \/ \E r \in Ranks : Get(r)
    \/ \E r \in Ranks : Put(r)
    \/ \E r \in Ranks : CarryOut(r)
    \/ \E r \in Ranks : SetVar(r)
    \/ \E r \in Ranks : Add1(r)
    \/ \E r \in Ranks : Barrier(r)
    \/ \E r \in Ranks : Expect(r)

SpecLockUnlock == InitQ /\ [][NextLockUnlock]_vars

NextGetPut ==
    \/ \E junk \in Junk : Allocate("GetPut", junk)
    \/ \E r \in Ranks : Fill(r)
    \/ \E r \in Ranks : LockAll(r)
    \/ \E r \in Ranks : UnlockAll(r)
    \/ \E r \in Ranks : Get(r)
    \/ \E r \in Ranks : Put(r)
    \/ \E r \in Ranks : CarryOut(r)
    \/ \E r \in Ranks : SetVar(r)
    \/ \E r \in Ranks : Barrier(r)
    \/ \E r \in Ranks : Expect(r)

SpecGetPut == InitQ /\ [][NextGetPut]_vars

\* =================================================== claims, Part VII
\* C19: in the LockUnlock program no increment is lost: the get of rank
\* 0's element after the last barrier, inside lock_all/unlock_all, returns
\* the number of ranks on every rank.
C19_NoIncrementLost ==
    \A r \in Ranks :
        (win.test = "LockUnlock" /\ ~Finished(r) /\ Cur(r).op = "expect_sum")
            => win.buf[r + 1][Cur(r).buf + 1] = NumRanks

\* C20: in the GetPut program the receive buffer read directly after the
\* gets holds the value target for every target, and after the second
\* barrier, before unlock_all, every rank's local element i equals i.
C20_GetPutVisible ==
    \A r \in Ranks :
        /\ (win.test = "GetPut" /\ ~Finished(r) /\ Cur(r).op = "expect_gets")
              => \A t \in Ranks : win.buf[r + 1][t + 1] = t
        /\ (win.test = "GetPut" /\ ~Finished(r) /\ Cur(r).op = "expect_window")
              => \A i \in Ranks : win.mem[r + 1][i + 1] = i

\* ============================= claims on failing and absent buffers
\* C29: when wait_some_into fails (the wait reports an error, or no request
\* of the list is active and wait_some throws its logic error), the caller's
\* indices vector has the length and the contents it had before the call.
C29_FailureKeepsIndices ==
    [][\A S \in SUBSET Slots :
          (WaitSomeInto(S) /\ batch'.result # "returned") =>
              batch'.indices = batch.indices
      ]_vars

\* C30: a rank other than the root may call gather without a receive
\* buffer: the call reads nothing of the absent buffer and enters the
\* underlying gather; the root aborts the communicator when it supplies no
\* receive buffer or one that is too small.
C30_NonRootGatherNeedsNoRecv ==
    \A r \in Ranks :
        (pc[r] = "called" /\ arg[r].op = "gather") =>
            IF arg[r].root = rank(r)
            THEN /\ call(pc, r, arg[r], "none", FALSE) = {abort(pc, r)}
                 /\ call(pc, r, arg[r], "small", FALSE) = {abort(pc, r)}
            ELSE call(pc, r, arg[r], "none", FALSE) = {MPI_collective(pc, r)}

\* ===================== Part VIII: the owning groups the library hands out
\* One process, kind = "Group": the UniqueGroup objects returned by
\* Comm::group(), range_incl and range_excl live in the slots of Part I;
\* grp.g is the membership of the group the last statement produced.

\* MPI_Comm_group / MPI_Group_range_incl / MPI_Group_range_excl store the
\* new group through addressof(): a new group object, or the predefined
\* MPI_GROUP_EMPTY when the new group has no member
MPI_newgroup(w, s, g) ==
    IF g = <<>> THEN [w EXCEPT !.slot[s].h = MPI_GROUP_EMPTY] ELSE MPI_create(w, s)

\* auto g = comm.group();
comm_group(w, s, G) ==
    MPI_newgroup(UniqueHandle_ctor(w, s, null(kind)), s, G.g)

\* auto g = comm.group().range_incl(from, to); (range_excl likewise): the
\* temporary from group() lives in slot tmp to the end of the statement; an
\* exception of the range call leaves the statement after destroying it
group_range(w, s, tmp, G) ==
    LET w1 == comm_group(w, tmp, group(G)) IN
    IF G.result = "exception"
    THEN [UniqueHandle_dtor(w1, tmp) EXCEPT !.proc = "exception"]
    ELSE UniqueHandle_dtor(MPI_newgroup(UniqueHandle_ctor(w1, s, null(kind)), s, G.g), tmp)

\* ---- actions
CommGroup(s) ==
    /\ proc = "running" /\ kind = "Group" /\ IsNew(s)
    /\ \E i \in Ids : res[i] = "unalloc"
    /\ CommitH(comm_group(World, s, group(grp)), Op("group", "unique"))
    /\ grp' = group(grp)
    /\ UNCHANGED <<cvars, xfer, batch, attrs, win, cv, net>>

GroupRange(s, tmp, from, to, excl) ==
    /\ proc = "running" /\ kind = "Group" /\ IsNew(s)
    /\ tmp # s /\ IsFree(tmp)
    /\ Cardinality({i \in Ids : res[i] = "unalloc"}) >= 2
    /\ LET G == IF excl THEN range_excl(group(grp), from, to)
                ELSE range_incl(group(grp), from, to)
       IN  /\ CommitH(group_range(World, s, tmp, G), Op(G.op, "unique"))
           /\ grp' = G
    /\ UNCHANGED <<cvars, xfer, batch, attrs, win, cv, net>>

InitGroupOwn == InitH /\ kind = "Group"

NextGroupOwn ==
    \/ \E s \in Slots : CommGroup(s)
    \/ \E s, tmp \in Slots, from, to \in Members, excl \in BOOLEAN :
          GroupRange(s, tmp, from, to, excl)
    \/ \E src, dst \in Slots : MoveCtor(src, dst)
    \/ \E src, dst \in Slots : MoveAssign(src, dst)
    \/ \E s \in Slots : Teardown(s)

SpecGroupOwn == InitGroupOwn /\ [][NextGroupOwn]_vars

\* C28: every owning group returned by range_incl, range_excl or
\* Comm::group() can be torn down without failing the protected-handle
\* assertion and without handing a protected group to the destroy
\* procedure, the predefined empty group of an empty selection included.
C28_GroupTeardownSafe ==
    [][\A s \in Slots :
          (Teardown(s) /\ IsUnique(s)) =>
              /\ proc' = "running"
              /\ ndestroy'[MPI_GROUP_EMPTY] = ndestroy[MPI_GROUP_EMPTY]
      ]_vars

\* ============================ Part IX: what the collectives compute
\* The processes of a world of cv.n ranks make one collective call on a
\* communicator whose group is cv.g (the world ranks of its members in rank
\* order).  cv.in[r] is the send buffer of world rank r, cv.nrecv[r] the
\* size of its receive buffer, cv.st[r] where it stands and cv.out[r] what
\* the call returned to it.  bool travels as 0 / 1.

MaxWorld == 5

\* the world sizes for which arrays of two elements are reduced
MaxArrayWorld == 3

Bools == {0, 1}

WorldRanks(n) == 0 .. (n - 1)

\* the operator behind sum(), logical_and(), logical_or()
apply(fop, a, b) ==
    CASE fop = "sum" -> a + b
      [] fop = "land" -> IF a # 0 /\ b # 0 THEN 1 ELSE 0
      [] fop = "lor" -> IF a # 0 \/ b # 0 THEN 1 ELSE 0

\* the operator folded over a non-empty sequence, in rank order
RECURSIVE FoldOver(_, _)
FoldOver(fop, vals) ==
    IF Len(vals) = 1 THEN vals[1]
    ELSE apply(fop, FoldOver(fop, SubSeq(vals, 1, Len(vals) - 1)), vals[Len(vals)])

\* the position of world rank r in the group g, from 1
RankIn(g, r) == CHOOSE i \in 1 .. Len(g) : g[i] = r

\* variant: a reduction that leaves out the contribution of the receiver
MPI_Reduce_others(C, r) ==
    [j \in 1 .. Len(C.in[r]) |->
        FoldOver(C.fop, [i \in 1 .. Len(C.g) |->
                            IF C.g[i] = r THEN (IF C.fop = "sum" THEN 0 ELSE 1)
                            ELSE C.in[C.g[i]][j]])]

\* MPI_Reduce(send, recv, count, type, op, root, comm): what recv holds at
\* the root, element by element
MPI_Reduce(C, r) ==
    [j \in 1 .. Len(C.in[r]) |->
        FoldOver(C.fop, [i \in 1 .. Len(C.g) |-> C.in[C.g[i]][j]])]

\* variant: only the lowest rank receives the reduction
MPI_Allreduce_root(C, r) ==
    IF r = C.g[1] THEN MPI_Reduce(C, r) ELSE C.in[r]

\* MPI_Allreduce(send, recv, count, type, op, comm): what recv holds at r
MPI_Allreduce(C, r) ==
    [j \in 1 .. Len(C.in[r]) |->
        FoldOver(C.fop, [i \in 1 .. Len(C.g) |-> C.in[C.g[i]][j]])]

\* variant: the blocks arrive in the opposite order
MPI_Allgather_reversed(C, r) ==
    [i \in 1 .. Len(C.g) |-> C.in[C.g[Len(C.g) + 1 - i]][1]]

\* MPI_Allgather(&send, 1, type, recv, 1, type, comm): block i of recv is
\* the element of rank i
MPI_Allgather(C, r) == [i \in 1 .. Len(C.g) |-> C.in[C.g[i]][1]]

\* MPI_Alltoall(send, 1, type, recv, 1, type, comm): block i of recv at r is
\* block r of the send buffer of rank i
MPI_Alltoall(C, r) == [i \in 1 .. Len(C.g) |-> C.in[C.g[i]][RankIn(C.g, r)]]

\* CommImpl::size()
size(C) == Len(C.g)

\* CommImpl::all_reduce(op, send, send_count, recv, recv_count)
all_reduce(p, r, send_count, recv_count) ==
    IF send_count > INT_MAX THEN {throw(p, r)}
    ELSE IF recv_count < send_count THEN {abort(p, r)}
    ELSE {MPI_collective(p, r)}

\* CommImpl::all_gather(send, recv)
all_gather(p, r, n, recv_size) ==
    IF recv_size < n THEN {abort(p, r)} ELSE {MPI_collective(p, r)}

\* variant: all_to_all that does not look at the sizes
all_to_all_unchecked(p, r, n, send_size, recv_size) == {MPI_collective(p, r)}

\* CommImpl::all_to_all(DynBuffer send, DynBuffer recv)
all_to_all(p, r, n, send_size, recv_size) ==
    IF send_size < n THEN {abort(p, r)}
    ELSE IF recv_size < n THEN {abort(p, r)}
    ELSE {MPI_collective(p, r)}

\* the call world rank r makes: the outcomes it can have
enter(C, r) ==
    CASE C.op = "reduce" ->
            IF r = C.root
            THEN reduce_into_root(C.st, r, C.root, "ok", FALSE)
            ELSE reduce(C.st, r, C.root, "none", FALSE)
      [] C.op = "all_reduce" -> all_reduce(C.st, r, Len(C.in[r]), C.nrecv[r])
      [] C.op = "all_gather" -> all_gather(C.st, r, size(C), C.nrecv[r])
      [] C.op = "all_to_all" -> all_to_all(C.st, r, size(C), Len(C.in[r]), C.nrecv[r])

\* what the call hands back to world rank r once the collective is done
returned(C, r) ==
    CASE C.op = "reduce" -> IF r = C.root THEN MPI_Reduce(C, r) ELSE <<>>
      [] C.op = "all_reduce" -> MPI_Allreduce(C, r)
      [] C.op = "all_gather" -> MPI_Allgather(C, r)
      [] C.op = "all_to_all" -> MPI_Alltoall(C, r)

\* the send buffers of the calls made on a world of n ranks
OwnRank(n) == [r \in WorldRanks(n) |-> <<r>>]

Flags(n, len) == [WorldRanks(n) -> [1 .. len -> Bools]]

\* rank k passes a buffer one element short of size()
RankInEverySlot(n, k, send) ==
    [r \in WorldRanks(n) |-> IF send /\ r = k THEN [i \in 1 .. n - 1 |-> r]
                             ELSE [i \in 1 .. n |-> r]]

Sized(n, k, short) == [r \in WorldRanks(n) |-> IF short /\ r = k THEN n - 1 ELSE n]

Ones(n) == [r \in WorldRanks(n) |-> 1]

TestCall(op, fop, root, in, nrecv) ==
    [op |-> op, fop |-> fop, root |-> root, in |-> in, nrecv |-> nrecv]

Calls(n) ==
    {TestCall("reduce", "sum", root, OwnRank(n), Ones(n)) : root \in {0, n - 1}}
    \cup {TestCall("reduce", "land", root, in, Ones(n)) : root \in {0, n - 1}, in \in Flags(n, 1)}
    \cup {TestCall("all_reduce", "sum", 0, OwnRank(n), Ones(n))}
    \cup {TestCall("all_reduce", "lor", 0, in, Ones(n)) : in \in Flags(n, 1)}
    \cup (IF n <= MaxArrayWorld
          THEN {TestCall("all_reduce", "lor", 0, in, [r \in WorldRanks(n) |-> 2]) : in \in Flags(n, 2)}
          ELSE {})
    \cup {TestCall("all_gather", "none", 0, OwnRank(n), Sized(n, 0, FALSE))}
    \cup {TestCall("all_to_all", "none", 0, RankInEverySlot(n, k, send), Sized(n, k, recv)) :
             k \in WorldRanks(n), send \in BOOLEAN, recv \in BOOLEAN}

\* the group of Comm::world() on n ranks
world_group(n) == [group(NoGroup) EXCEPT !.g = [i \in 1 .. n |-> i - 1]]

\* a call on Comm::world()
on_world(n, c) ==
    [op |-> c.op, fop |-> c.fop, comm |-> "world", root |-> c.root,
     g |-> world_group(n).g, in |-> c.in, nrecv |-> c.nrecv,
     st |-> [r \in WorldRanks(n) |-> "idle"],
     out |-> [r \in WorldRanks(n) |-> <<>>]]

\* TEST(Comm, RangeIncl), second half: back = world.create(world.group()
\* .range_incl(size / 2 + 1, size - 1)), then back.all_reduce(sum(), rank)
\* on the ranks where back is not null
on_back(n) ==
    LET G == range_incl(world_group(n), n \div 2 + 1, n - 1) IN
    [op |-> "all_reduce", fop |-> "sum", comm |-> "back", root |-> 0,
     g |-> IF G.result = "returned" THEN G.g ELSE <<>>,
     in |-> OwnRank(n), nrecv |-> Ones(n),
     st |-> [r \in WorldRanks(n) |->
                IF G.result # "returned" THEN "exception"
                ELSE IF MPI_Comm_create(G.g, r) = "nonnull" THEN "idle" ELSE "null"],
     out |-> [r \in WorldRanks(n) |-> <<>>]]

\* ---- actions
WorldCall(n) ==
    /\ cv.op = "none"
    /\ \E c \in Calls(n) : cv' = on_world(n, c)
    /\ UNCHANGED cv_frame

BackCall(n) ==
    /\ cv.op = "none"
    /\ cv' = on_back(n)
    /\ UNCHANGED cv_frame

\* world rank r makes its call
EnterCall(r) ==
    /\ cv.op # "none" /\ r \in DOMAIN cv.st
    /\ cv.st[r] = "idle"
    /\ \E p \in enter(cv, r) : cv' = [cv EXCEPT !.st = p]
    /\ UNCHANGED cv_frame

\* the collective returns on rank r: every member has contributed (a rank
\* that only sends to the root need not wait for the others)
ReturnCall(r) ==
    /\ cv.op # "none" /\ r \in DOMAIN cv.st
    /\ cv.st[r] = "in_collective"
    /\ (cv.op = "reduce" /\ r # cv.root)
          \/ \A i \in 1 .. Len(cv.g) : cv.st[cv.g[i]] \in {"in_collective", "done"}
    /\ cv' = [cv EXCEPT !.st[r] = "done", !.out[r] = returned(cv, r)]
    /\ UNCHANGED cv_frame

NextValues ==
    \/ \E n \in 1 .. MaxWorld : WorldCall(n)
    \/ \E n \in 2 .. MaxWorld : BackCall(n)
    \/ \E r \in WorldRanks(MaxWorld) : EnterCall(r)
    \/ \E r \in WorldRanks(MaxWorld) : ReturnCall(r)

SpecValues == InitQ /\ [][NextValues]_vars

\* =================================================== claims, Part IX
WorldSize == Cardinality(DOMAIN cv.st)

Healthy == \A r \in DOMAIN cv.st : cv.st[r] \in {"idle", "in_collective", "done"}

AllDone == \A r \in DOMAIN cv.st : cv.st[r] = "done"

\* C23: for every world size N > 1 the communicator created from
\* range_incl(N/2 + 1, N - 1) is non-null exactly on the ranks at or above
\* N/2 + 1, and all_reduce(sum) of the members' world ranks over it returns
\* ((N/2 + N) / 2) * (number of members), in integer division, at every member.
C23_BackHalfSum ==
    cv.comm = "back" =>
        /\ \A r \in DOMAIN cv.st : cv.st[r] # "exception"
        /\ \A r \in DOMAIN cv.st : cv.st[r] # "null" <=> r >= WorldSize \div 2 + 1
        /\ \A r \in DOMAIN cv.st :
              cv.st[r] = "done" =>
                  cv.out[r] = <<((WorldSize \div 2 + WorldSize) \div 2) * size(cv)>>

\* C24: reduce_into_root on the root, matched by reduce on every other
\* rank, returns at the root the fold of the operator over all N
\* contributions: N*(N-1)/2 for sum over the ranks 0..N-1, and for
\* logical-and true exactly when every participant, the root included,
\* contributed true.
C24_ReduceIntoRootFolds ==
    (cv.op = "reduce" /\ cv.comm = "world") =>
        /\ Healthy
        /\ cv.st[cv.root] = "done" =>
              /\ cv.fop = "sum" =>
                    cv.out[cv.root] = <<(WorldSize * (WorldSize - 1)) \div 2>>
              /\ cv.fop = "land" =>
                    cv.out[cv.root] =
                        <<IF \A q \in DOMAIN cv.in : cv.in[q][1] = 1 THEN 1 ELSE 0>>

\* a logical-and reduction into the last rank of three or more has
\* returned false because of a rank other than the root
C24_Witness ==
    /\ cv.op = "reduce" /\ cv.fop = "land" /\ WorldSize >= 3
    /\ cv.root = WorldSize - 1
    /\ cv.st[cv.root] = "done" /\ cv.out[cv.root] = <<0>>
    /\ cv.in[cv.root] = <<1>>
    /\ \E q \in DOMAIN cv.in : cv.in[q] = <<0>>

\* C25: all_reduce returns the same result at every participant, the fold
\* of the operator over all N contributions: N*(N-1)/2 for sum over the
\* ranks, and for logical-or true exactly when some participant contributed
\* true, element by element for arrays.
C25_AllReduceFolds ==
    (cv.op = "all_reduce" /\ cv.comm = "world") =>
        /\ Healthy
        /\ \A r \in DOMAIN cv.st :
              cv.st[r] = "done" =>
                  /\ cv.fop = "sum" => cv.out[r] = <<(WorldSize * (WorldSize - 1)) \div 2>>
                  /\ cv.fop = "lor" =>
                        cv.out[r] = [j \in 1 .. Len(cv.in[r]) |->
                                        IF \E q \in DOMAIN cv.in : cv.in[q][j] = 1
                                        THEN 1 ELSE 0]
        /\ \A r, q \in DOMAIN cv.st :
              (cv.st[r] = "done" /\ cv.st[q] = "done") => cv.out[r] = cv.out[q]

\* every rank has the logical-or of arrays {false, rank == 0}
C25_Witness ==
    /\ cv.op = "all_reduce" /\ cv.fop = "lor" /\ cv.comm = "world"
    /\ WorldSize >= 2 /\ AllDone
    /\ \A r \in DOMAIN cv.in : cv.in[r] = <<0, IF r = 0 THEN 1 ELSE 0>>
    /\ \A r \in DOMAIN cv.out : cv.out[r] = <<0, 1>>

\* C26: for every N >= 1, all_gather of each participant's own rank
\* returns at every participant a sequence of exactly N elements whose
\* element i is i.
C26_AllGatherRanks ==
    cv.op = "all_gather" =>
        /\ Healthy
        /\ \A r \in DOMAIN cv.st :
              cv.st[r] = "done" =>
                  /\ Len(cv.out[r]) = WorldSize
                  /\ \A i \in WorldRanks(WorldSize) : cv.out[r][i + 1] = i

\* all_gather has returned on every rank of a world of three or more
C26_Witness ==
    /\ cv.op = "all_gather" /\ WorldSize >= 3 /\ AllDone
    /\ \A r \in DOMAIN cv.out : Len(cv.out[r]) = WorldSize

\* a buffer of rank r has fewer elements than the communicator has ranks
ShortBuffer(r) == Len(cv.in[r]) < size(cv) \/ cv.nrecv[r] < size(cv)

\* C27: for every N >= 1, all_to_all of a send buffer whose N slots all
\* hold the caller's rank returns a sequence of exactly N elements whose
\* element i is i; a send or receive buffer of fewer than N elements
\* aborts the communicator, and the exchange is not entered.
C27_AllToAllRanks ==
    /\ [](cv.op = "all_to_all" =>
            \A r \in DOMAIN cv.st :
               /\ (cv.st[r] = "done" /\ \A q \in DOMAIN cv.st : ~ShortBuffer(q)) =>
                     /\ Len(cv.out[r]) = WorldSize
                     /\ \A i \in WorldRanks(WorldSize) : cv.out[r][i + 1] = i
               /\ ShortBuffer(r) => cv.st[r] \in {"idle", "aborted", "killed"})
    /\ [][\A r \in WorldRanks(MaxWorld) :
            (EnterCall(r) /\ cv.op = "all_to_all") =>
                cv'.st = (IF ShortBuffer(r) THEN abort(cv.st, r)
                          ELSE MPI_collective(cv.st, r))
         ]_vars

\* all_to_all has returned on every rank of a world of three or more
C27_Witness ==
    /\ cv.op = "all_to_all" /\ WorldSize >= 3 /\ AllDone
    /\ \A r \in DOMAIN cv.out : cv.out[r] = [i \in 1 .. WorldSize |-> i - 1]

\* ========================= Part X: immediate sends and receives
\* The processes of a world of net.n ranks run one of the two Immediate
\* programs of mpi_test.cpp.  Every rank has its own request objects and MPI
\* resource table, net.w[r], of the shape Part I works on; net.var[r] are
\* its receive variables, net.msgs the messages sent and not yet received,
\* net.posted the receives posted and not yet matched, net.done[r] the
\* requests of rank r whose operation has finished, net.nstatus the length
\* of the vector wait_all_statuses returned on rank 0.

MaxProcs == 3

Procs == 0 .. (MaxProcs - 1)

J(op, lo, hi, peer, var, mode) ==
    [op |-> op, lo |-> lo, hi |-> hi, peer |-> peer, var |-> var, mode |-> mode]

\* TEST(Immediate, Basic) on rank r of n: send_request is object 1,
\* recv_request object 2, neighbor variable 1
Basic(n, r) ==
    << J("declare", 1, 2, 0, 0, "none") >>
    \o (IF r < n - 1 THEN << J("immediate_send", 1, 1, r + 1, 0, "assign") >> ELSE << >>)
    \o (IF r > 0 THEN << J("immediate_recv", 2, 2, r - 1, 1, "assign") >> ELSE << >>)
    \o << J("wait", 2, 2, 0, 0, "if"),
          J("wait", 1, 1, 0, 0, "if"),
          J("leave", 1, 2, 0, 0, "none") >>

\* TEST(Immediate, CollectiveWait) on rank r of n: send_request is object
\* 1, requests[i] object i + 2, ranks[i] variable i + 1
CollectiveWait(n, r) ==
    << J("immediate_send", 1, 1, 0, 0, "init") >>
    \o (IF r = 0
        THEN [i \in 1 .. n |-> J("immediate_recv", i + 1, i + 1, i - 1, i, "push_back")]
             \o << J("wait_all_statuses", 2, n + 1, 0, 0, "none"),
                   J("leave", 2, n + 1, 0, 0, "none") >>
        ELSE << >>)
    \o << J("wait", 1, 1, 0, 0, "always"),
          J("leave", 1, 1, 0, 0, "none") >>

Program(N, r) == IF N.test = "Basic" THEN Basic(N.n, r) ELSE CollectiveWait(N.n, r)

\* the object a returned UniqueRequest lives in before it is moved
Tmp(N) == N.n + 2

\* a process that holds no request and has started none
RankWorld(n) ==
    [slot |-> [s \in 1 .. n + 2 |-> FreeSlot],
     res |-> [i \in 1 .. n + 1 |-> "unalloc"],
     ndestroy |-> [h \in (-2) .. (n + 1) |-> 0],
     proc |-> "running",
     released |-> {}]

launch(test, n, junk) ==
    [test |-> test, n |-> n,
     at |-> [r \in WorldRanks(n) |-> 1],
     w |-> [r \in WorldRanks(n) |-> RankWorld(n)],
     var |-> [r \in WorldRanks(n) |-> [v \in 1 .. n |-> junk]],
     msgs |-> {}, posted |-> {},
     done |-> [r \in WorldRanks(n) |-> {}],
     nstatus |-> 0]

\* statement sequencing: F applied to the state x that the statement
\* before it has produced
then(x, F(_)) == CHOOSE y \in {F(v) : v \in {x}} : TRUE

\* mpi::UniqueRequest a, b; : default construction of the objects in S
RECURSIVE declare(_, _)
declare(w, S) ==
    IF S = {} THEN w
    ELSE LET s == CHOOSE x \in S : \A y \in S : x <= y
             rest(w1) == declare(w1, S \ {s})
         IN  then(UniqueHandle_ctor(w, s, null(kind)), rest)

\* the objects in S go out of scope, the last declared first
RECURSIVE leave(_, _)
leave(w, S) ==
    IF S = {} \/ ~Running(w) THEN w
    ELSE LET s == CHOOSE x \in S : \A y \in S : x >= y
             rest(w1) == leave(w1, S \ {s})
         IN  then(UniqueRequest_dtor(w, s), rest)

\* what becomes of the UniqueRequest an immediate_ call returns:
\* `auto x = f()` builds it in place, `x = f()` move-assigns the temporary
\* and `v.push_back(f())` move-constructs from it; the temporary is destroyed
\* at the end of the statement
keep(w, s, tmp, mode) ==
    IF mode = "init" THEN factory(w, s)
    ELSE LET moved(w1) == IF mode = "assign" THEN UniqueRequest_move_assign(w1, tmp, s)
                          ELSE UniqueHandle_move_ctor(w1, tmp, s)
             destroyed(w2) == IF ~Running(w2) THEN w2 ELSE UniqueRequest_dtor(w2, tmp)
         IN  then(then(factory(w, tmp), moved), destroyed)

\* the request the call creates
created(w, s, tmp, mode) ==
    IF mode = "init" THEN factory(w, s).slot[s].h ELSE factory(w, tmp).slot[tmp].h

\* MPI_Isend(&send, 1, type, dest, tag, comm, request.addressof())
MPI_Isend(N, r, id, dest, val) ==
    [N EXCEPT !.msgs = @ \cup {[src |-> r, dst |-> dest, val |-> val, req |-> id]}]

\* MPI_Irecv(&recv, 1, type, source, tag, comm, request.addressof())
MPI_Irecv(N, r, id, source, var) ==
    [N EXCEPT !.posted = @ \cup {[rank |-> r, source |-> source, var |-> var, req |-> id]}]

\* CommImpl::immediate_send(send, dest) on rank r, the request kept in s
immediate_send(N, r, s, dest, val, mode) ==
    LET started(w1) == MPI_Isend([N EXCEPT !.w[r] = w1], r,
                                 created(N.w[r], s, Tmp(N), mode), dest, val)
    IN  then(keep(N.w[r], s, Tmp(N), mode), started)

\* CommImpl::immediate_recv(recv, source) on rank r, the request kept in s
immediate_recv(N, r, s, source, var, mode) ==
    LET started(w1) == MPI_Irecv([N EXCEPT !.w[r] = w1], r,
                                 created(N.w[r], s, Tmp(N), mode), source, var)
    IN  then(keep(N.w[r], s, Tmp(N), mode), started)

\* variant: a message that is matched and finished without being stored
MPI_transfer_lost(N, m, p) ==
    LET N1 == [N EXCEPT !.done[m.src] = @ \cup {m.req}] IN
    [N1 EXCEPT !.done[p.rank] = @ \cup {p.req},
               !.msgs = @ \ {m}, !.posted = @ \ {p}]

\* MPI moves message m into the posted receive p: the receive variable
\* gets the value and both operations have finished
MPI_transfer(N, m, p) ==
    LET N1 == [N EXCEPT !.done[m.src] = @ \cup {m.req}] IN
    [N1 EXCEPT !.done[p.rank] = @ \cup {p.req},
               !.var[p.rank][p.var] = m.val,
               !.msgs = @ \ {m}, !.posted = @ \ {p}]

\* the requests of the objects in S that MPI_Wait would block on
Blocking(N, r, S) ==
    {s \in S : N.w[r].slot[s].h # null(kind) /\ N.w[r].slot[s].h \notin N.done[r]}

\* ---- actions
Ended(r) == net.at[r] > Len(Program(net, r))

\* rank r is to run the instruction `op` next
Next_(r, op) ==
    /\ net.test # "none" /\ r \in DOMAIN net.at
    /\ net.w[r].proc = "running" /\ ~Ended(r)
    /\ Program(net, r)[net.at[r]].op = op

Ins(r) == Program(net, r)[net.at[r]]

step(N, r) == [N EXCEPT !.at[r] = @ + 1]

Launch(test, n) ==
    /\ net.test = "none" /\ kind = "Request"
    /\ \E junk \in Junk : net' = launch(test, n, IF test = "Basic" THEN junk ELSE 0)
    /\ UNCHANGED <<hvars, net_frame>>

Declare(r) ==
    /\ Next_(r, "declare")
    /\ \E w1 \in {declare(net.w[r], Ins(r).lo .. Ins(r).hi)} :
          net' = step([net EXCEPT !.w[r] = w1], r)
    /\ UNCHANGED <<hvars, net_frame>>

ImmediateSend(r) ==
    /\ Next_(r, "immediate_send")
    /\ net' = step(immediate_send(net, r, Ins(r).lo, Ins(r).peer, r, Ins(r).mode), r)
    /\ UNCHANGED <<hvars, net_frame>>

ImmediateRecv(r) ==
    /\ Next_(r, "immediate_recv")
    /\ net' = step(immediate_recv(net, r, Ins(r).lo, Ins(r).peer, Ins(r).var, Ins(r).mode), r)
    /\ UNCHANGED <<hvars, net_frame>>

\* MPI matches a message with a receive posted for its sender
Deliver ==
    /\ net.test # "none"
    /\ \E m \in net.msgs, p \in net.posted :
          /\ p.rank = m.dst /\ p.source = m.src
          /\ net' = MPI_transfer(net, m, p)
    /\ UNCHANGED <<hvars, net_frame>>

\* MPI has copied a message away: the send has finished before a receive
\* took the message
Buffered ==
    /\ net.test # "none"
    /\ \E m \in net.msgs :
          /\ m.req \notin net.done[m.src]
          /\ net' = [net EXCEPT !.done[m.src] = @ \cup {m.req}]
    /\ UNCHANGED <<hvars, net_frame>>

\* if (request) request.wait(); / request.wait(); : returns once the
\* operation has finished
WaitRequest(r) ==
    /\ Next_(r, "wait")
    /\ LET s == Ins(r).lo IN
          IF Ins(r).mode = "if" /\ net.w[r].slot[s].h = null(kind)
          THEN net' = step(net, r)
          ELSE /\ Blocking(net, r, {s}) = {}
               /\ net' = step([net EXCEPT !.w[r] = RequestImpl_wait(@, s)], r)
    /\ UNCHANGED <<hvars, net_frame>>

\* auto statuses = mpi::wait_all_statuses(requests); an exception that
\* leaves the test ends the process
WaitAllRequests(r) ==
    /\ Next_(r, "wait_all_statuses")
    /\ LET S == Ins(r).lo .. Ins(r).hi IN
       \E a \in {wait_all_statuses(net.w[r], S)} :
           /\ Blocking(net, r, S) = {}
           /\ net' = step([net EXCEPT
                             !.w[r] = IF a.result = "returned" THEN a.w
                                      ELSE [a.w EXCEPT !.proc = "exception"],
                             !.nstatus = IF a.result = "returned" THEN Cardinality(S) ELSE 0],
                          r)
    /\ UNCHANGED <<hvars, net_frame>>

Leave(r) ==
    /\ Next_(r, "leave")
    /\ \E w1 \in {leave(net.w[r], Ins(r).lo .. Ins(r).hi)} :
          net' = step([net EXCEPT !.w[r] = w1], r)
    /\ UNCHANGED <<hvars, net_frame>>

\* rank r keeps running: whatever statement it stands at is executed
Runs(r) ==
    /\ WF_vars(Declare(r)) /\ WF_vars(ImmediateSend(r)) /\ WF_vars(ImmediateRecv(r))
    /\ WF_vars(WaitRequest(r)) /\ WF_vars(WaitAllRequests(r)) /\ WF_vars(Leave(r))

NextImmediate ==
    \/ \E test \in {"Basic", "CollectiveWait"}, n \in 1 .. MaxProcs : Launch(test, n)
    \/ \E r \in Procs : Declare(r)
    \/ \E r \in Procs : ImmediateSend(r)
    \/ \E r \in Procs : ImmediateRecv(r)
    \/ \E r \in Procs : WaitRequest(r)
    \/ \E r \in Procs : WaitAllRequests(r)
    \/ \E r \in Procs : Leave(r)
    \/ Deliver
    \/ Buffered

\* every process keeps running and MPI keeps matching messages
SpecImmediate ==
    /\ InitB
    /\ [][NextImmediate]_vars
    /\ \A r \in Procs : Runs(r)
    /\ WF_vars(Deliver)

\* =================================================== claims, Part X
\* every rank has run its program to the end and none has been terminated
AllReturned ==
    /\ net.test # "none"
    /\ \A r \in DOMAIN net.at : Ended(r) /\ net.w[r].proc = "running"

\* C21: when every rank sends its rank to rank 0 with immediate_send and
\* rank 0 posts immediate_recv from each rank i into slot i and calls
\* wait_all_statuses on the receive requests, the wait eventually returns
\* with one successful status per request, slot i holding i and every
\* receive request null, and each sender's wait on its send request
\* returns too.
C21_CollectiveWaitReturns ==
    /\ [][\A r \in Procs :
            (WaitAllRequests(r) /\ net.test = "CollectiveWait") =>
                /\ net'.w[r].proc = "running"
                /\ net'.nstatus = net.n
                /\ \A i \in WorldRanks(net.n) : net'.var[r][i + 1] = i
                /\ \A s \in 2 .. net.n + 1 : net'.w[r].slot[s].h = null(kind)
         ]_vars
    /\ (net.test = "CollectiveWait") ~> AllReturned

\* all ranks of a world of two or more are through CollectiveWait
C21_Witness ==
    /\ net.test = "CollectiveWait" /\ net.n >= 2
    /\ AllReturned
    /\ net.nstatus = net.n
    /\ \A i \in WorldRanks(net.n) : net.var[0][i + 1] = i

\* C22: in the chain where every rank below N-1 sends its rank to rank+1
\* and every rank above 0 receives from rank-1, then waits on its receive
\* and afterwards on its send, every wait eventually returns for every
\* N >= 1, the value received is rank-1, and the null requests of ranks
\* that sent or received nothing are skipped and torn down without ending
\* the process.
C22_ChainReturns ==
    /\ [](net.test = "Basic" =>
             \A r \in DOMAIN net.w : net.w[r].proc = "running")
    /\ [][\A r \in Procs :
            (WaitRequest(r) /\ net.test = "Basic") =>
                IF net.w[r].slot[Ins(r).lo].h = null(kind)
                THEN net'.w[r] = net.w[r]
                ELSE /\ net'.w[r].slot[Ins(r).lo].h = null(kind)
                     /\ Ins(r).lo = 2 => net'.var[r][1] = r - 1
         ]_vars
    /\ (net.test = "Basic") ~> AllReturned

\* all ranks of a chain of three or more are through Basic
C22_Witness ==
    /\ net.test = "Basic" /\ net.n >= 3
    /\ AllReturned
    /\ \A r \in DOMAIN net.var : r > 0 => net.var[r][1] = r - 1
====
